---- MODULE Spec2Model ----
(***************************************************************************)
(* Risk-correlation engine of the financial risk analysis system.          *)
(*                                                                         *)
(* The state is the content of the three tables of init.sql (accounts,     *)
(* logins, transactions) and the answer of the query that ran last.  The   *)
(* tables grow by INSERTs; the queries are the three implementations the   *)
(* repository holds: RiskAnalysisServer::queryRiskTransactions behind      *)
(* POST /api/risk-analysis, the CLI statement of build_sql, and the stored *)
(* procedure GetRiskTransactions.                                          *)
(*                                                                         *)
(* Timestamps are seconds (the resolution of a MySQL TIMESTAMP), amounts   *)
(* are whole currency units.                                               *)
(*                                                                         *)
(* The HTTP servers are modelled by their threads: the handlers of         *)
(* RiskAnalysisServer over its one MySQL connection, and the               *)
(* thread-per-connection loop of SimpleHTTPServer over its sockets.        *)
(***************************************************************************)
EXTENDS Integers, Sequences, FiniteSets, TLC

VARIABLES
    accounts,      \* set of accounts.id
    logins,        \* logins.id -> [account_id, login_at]
    transactions,  \* transactions.id -> [sender_account_id, receiver_account_id,
                   \*                     amount, status, created_at]
    response,      \* the answer of the last query, [op |-> "none"] once delivered
    conn,          \* the server's one MYSQL connection: [status, owner]
    workers,       \* handler thread -> [pc, kind, left, out_of_sync]
    sockets,       \* socket handle -> the connection open on it, 0 when free
    threads        \* connection -> its thread's [pc, client_socket, bytes_received]
                   \*   and what was done to its socket [sends, closes, foreign]

\* the tables and the answer; the HTTP servers' connection, sockets and threads
serverVars == <<conn, workers, sockets, threads>>

vars == <<accounts, logins, transactions, response, serverVars>>

----------------------------------------------------------------------------
(* Bounds of the model *)

MaxAccounts == 2
MaxLogins == 2
MaxTx == 2

\* handler threads of the server that run at the same time
MaxWorkers == 2

\* connections the thread-per-connection server accepts, and the socket
\* handles the system has to give
MaxConnections == 3
MaxHandles == 2

\* The instant NOW() returns while the model runs.
Now == 40000000

----------------------------------------------------------------------------
(* SQL interval arithmetic on second timestamps *)

DATE_SUB_DAY(t, n) == t - n * (24 * 60 * 60)
DATE_SUB_HOUR(t, n) == t - n * (60 * 60)
DATE_ADD_MINUTE(t, n) == t + n * 60

COALESCE(m, k) == IF k \in DOMAIN m THEN m[k] ELSE 0

RECURSIVE SumOver(_, _)
\* SUM(f) over the rows of S
SumOver(S, f) ==
    IF S = {} THEN 0
    ELSE LET x == CHOOSE y \in S : TRUE IN f[x] + SumOver(S \ {x}, f)

----------------------------------------------------------------------------
(* Rows the environment inserts *)

\* the start of the 30-day lookback horizon
HorizonStart == DATE_SUB_DAY(Now, 30)

Amounts == {49999, 50000}
Statuses == {"posted", "pending"}

\* timestamps around the start of the lookback horizon, and the query instant
TxTimes == {HorizonStart - 1, HorizonStart, Now}
LoginTimes == {HorizonStart - 1}

\* timestamps at the bounds of the 2-minute and 5-minute lags
ChainTxTimes == {Now - 121, Now - 1, Now}
ChainLoginTimes == {Now - 301}

\* AUTO_INCREMENT primary keys
NextId(table) == Cardinality(DOMAIN table) + 1

Extend(table, row) ==
    [id \in DOMAIN table \cup {NextId(table)} |->
        IF id \in DOMAIN table THEN table[id] ELSE row]

----------------------------------------------------------------------------
(* RiskAnalysisServer (the database-backed server): the statement of       *)
(* queryRiskTransactions over the tables T (transactions) and Lg (logins)  *)

\* the mapping with six months of 31 days
getTimeRangeHours_long_months(timeRange) ==
    CASE timeRange = "24h" -> 24
      [] timeRange = "3d" -> 72
      [] timeRange = "7d" -> 168
      [] timeRange = "30d" -> 720
      [] timeRange = "6m" -> 4464
      [] timeRange = "1y" -> 8760
      [] OTHER -> 24

getTimeRangeHours(timeRange) ==
    CASE timeRange = "24h" -> 24
      [] timeRange = "3d" -> 72
      [] timeRange = "7d" -> 168
      [] timeRange = "30d" -> 720
      [] timeRange = "6m" -> 4320
      [] timeRange = "1y" -> 8760
      [] OTHER -> 24

\* the join with t_in and t_out required to be different rows
metric_a_join_distinct(T) ==
    {p \in (DOMAIN T) \X (DOMAIN T) :
        LET t_out == T[p[1]]
            t_in == T[p[2]]
        IN  /\ p[1] # p[2]
            /\ t_in.receiver_account_id = t_out.sender_account_id
            /\ t_out.amount >= 50000
            /\ t_out.status = "posted"
            /\ t_out.created_at >= DATE_SUB_DAY(Now, 30)
            /\ t_in.amount >= 50000
            /\ t_in.status = "posted"
            /\ t_in.created_at >= DATE_SUB_DAY(Now, 30)
            /\ t_out.created_at >= t_in.created_at
            /\ t_out.created_at <= DATE_ADD_MINUTE(t_in.created_at, 2)}

\* the join with the upper bound of the lag exclusive
metric_a_join_exclusive(T) ==
    {p \in (DOMAIN T) \X (DOMAIN T) :
        LET t_out == T[p[1]]
            t_in == T[p[2]]
        IN  /\ t_in.receiver_account_id = t_out.sender_account_id
            /\ t_out.amount >= 50000
            /\ t_out.status = "posted"
            /\ t_out.created_at >= DATE_SUB_DAY(Now, 30)
            /\ t_in.amount >= 50000
            /\ t_in.status = "posted"
            /\ t_in.created_at >= DATE_SUB_DAY(Now, 30)
            /\ t_out.created_at >= t_in.created_at
            /\ t_out.created_at < DATE_ADD_MINUTE(t_in.created_at, 2)}

\* FROM transactions t_out JOIN transactions t_in ... WHERE ...: the pairs
\* <<t_out.id, t_in.id>> of the join
metric_a_join(T) ==
    {p \in (DOMAIN T) \X (DOMAIN T) :
        LET t_out == T[p[1]]
            t_in == T[p[2]]
        IN  /\ t_in.receiver_account_id = t_out.sender_account_id
            /\ t_out.amount >= 50000
            /\ t_out.status = "posted"
            /\ t_out.created_at >= DATE_SUB_DAY(Now, 30)
            /\ t_in.amount >= 50000
            /\ t_in.status = "posted"
            /\ t_in.created_at >= DATE_SUB_DAY(Now, 30)
            /\ t_out.created_at >= t_in.created_at
            /\ t_out.created_at <= DATE_ADD_MINUTE(t_in.created_at, 2)}

\* COUNT(*) in the place of COUNT(DISTINCT t_out.id)
metric_a_count_rows(T, acct) ==
    Cardinality({q \in metric_a_join(T) : T[q[1]].sender_account_id = acct})

\* COUNT(DISTINCT t_out.id) of the group t_out.sender_account_id = acct
metric_a_count(T, acct) ==
    Cardinality({p[1] : p \in {q \in metric_a_join(T) :
                                 T[q[1]].sender_account_id = acct}})

\* GROUP BY t_out.sender_account_id: one entry per sender with a join row
metric_a_data(T) ==
    [acct \in {T[p[1]].sender_account_id : p \in metric_a_join(T)} |->
        metric_a_count(T, acct)]

\* FROM transactions t JOIN logins l ... WHERE ...: the pairs <<t.id, l.id>>
metric_b_join(T, Lg) ==
    {p \in (DOMAIN T) \X (DOMAIN Lg) :
        LET t == T[p[1]]
            l == Lg[p[2]]
        IN  /\ l.account_id = t.sender_account_id
            /\ t.amount >= 50000
            /\ t.status = "posted"
            /\ t.created_at >= DATE_SUB_DAY(Now, 30)
            /\ l.login_at <= t.created_at
            /\ t.created_at <= DATE_ADD_MINUTE(l.login_at, 5)}

\* COUNT(*) in the place of COUNT(DISTINCT t.id)
metric_b_count_rows(T, Lg, acct) ==
    Cardinality({q \in metric_b_join(T, Lg) : T[q[1]].sender_account_id = acct})

\* COUNT(DISTINCT t.id) of the group t.sender_account_id = acct
metric_b_count(T, Lg, acct) ==
    Cardinality({p[1] : p \in {q \in metric_b_join(T, Lg) :
                                 T[q[1]].sender_account_id = acct}})

metric_b_data(T, Lg) ==
    [acct \in {T[p[1]].sender_account_id : p \in metric_b_join(T, Lg)} |->
        metric_b_count(T, Lg, acct)]

\* the rows with the large-amount threshold of the other two metrics
metric_c_rows_large(T) ==
    {id \in DOMAIN T :
        /\ T[id].amount >= 50000
        /\ T[id].status = "posted"
        /\ T[id].created_at >= DATE_SUB_DAY(Now, 30)}

\* the rows without the status test
metric_c_rows_any_status(T) ==
    {id \in DOMAIN T : T[id].created_at >= DATE_SUB_DAY(Now, 30)}

\* FROM transactions t WHERE t.status = 'posted' AND t.created_at >= ...
metric_c_rows(T) ==
    {id \in DOMAIN T :
        /\ T[id].status = "posted"
        /\ T[id].created_at >= DATE_SUB_DAY(Now, 30)}

\* COALESCE(SUM(t.amount), 0) of the group t.receiver_account_id = acct
metric_c_sum(T, acct) ==
    SumOver({id \in metric_c_rows(T) : T[id].receiver_account_id = acct},
            [id \in DOMAIN T |-> T[id].amount])

metric_c_data(T) ==
    [acct \in {T[id].receiver_account_id : id \in metric_c_rows(T)} |->
        metric_c_sum(T, acct)]

\* the sum over the rows older than the horizon
metric_c_sum_before(T, acct, days) ==
    SumOver({id \in DOMAIN T :
                /\ T[id].status = "posted"
                /\ T[id].created_at < DATE_SUB_DAY(Now, days)
                /\ T[id].receiver_account_id = acct},
            [id \in DOMAIN T |-> T[id].amount])

\* metric_c_data with the horizon INTERVAL 30 DAY read as INTERVAL days DAY
metric_c_sum_within(T, acct, days) ==
    SumOver({id \in DOMAIN T :
                /\ T[id].status = "posted"
                /\ T[id].created_at >= DATE_SUB_DAY(Now, days)
                /\ T[id].receiver_account_id = acct},
            [id \in DOMAIN T |-> T[id].amount])

\* the CASE with its first branch missing the metric_c = 0 test
risk_level_no_c(metric_a, metric_b, metric_c) ==
    CASE metric_a > 0 /\ metric_b > 0 -> "HIGH"
      [] metric_a > 0 \/ metric_b > 0 -> "MEDIUM"
      [] OTHER -> "LOW"

\* CASE ... END as risk_level
risk_level(metric_a, metric_b, metric_c) ==
    CASE metric_a > 0 /\ metric_b > 0 /\ metric_c = 0 -> "HIGH"
      [] ~(metric_a > 0 /\ metric_b > 0 /\ metric_c = 0)
            /\ (metric_a > 0 \/ metric_b > 0) -> "MEDIUM"
      [] OTHER -> "LOW"

\* ma joined on the receiver
JoinedMetricA_receiver(T, t) == COALESCE(metric_a_data(T), t.receiver_account_id)

\* mc joined on the sender
JoinedMetricC_sender(T, t) == COALESCE(metric_c_data(T), t.sender_account_id)

\* the LEFT JOINs of the three metric tables: ma on the sender, mb on the
\* sender, mc on the receiver
JoinedMetricA(T, t) == COALESCE(metric_a_data(T), t.sender_account_id)
JoinedMetricB(T, Lg, t) == COALESCE(metric_b_data(T, Lg), t.sender_account_id)
JoinedMetricC(T, t) == COALESCE(metric_c_data(T), t.receiver_account_id)

\* the select list for transaction id; RiskTransaction after the row is parsed
RiskTransaction(T, Lg, id) ==
    LET t == T[id]
        a == JoinedMetricA(T, t)
        b == JoinedMetricB(T, Lg, t)
        c == JoinedMetricC(T, t)
    IN  [transaction_id |-> id,
         transaction_time |-> t.created_at,
         amount |-> t.amount,
         victim_account_id |-> t.sender_account_id,
         suspicious_account_id |-> t.receiver_account_id,
         metric_a |-> a,
         metric_b |-> b,
         metric_c |-> c,
         risk_level |-> risk_level(a, b, c)]

\* the window closed at its end
ServerCandidate_closed(T, id, hours) ==
    /\ T[id].amount >= 50000
    /\ T[id].status = "posted"
    /\ T[id].created_at >= DATE_SUB_HOUR(Now, hours)
    /\ T[id].created_at <= Now

\* WHERE t.amount >= 50000 AND t.status = 'posted' AND t.created_at in the window
ServerCandidate(T, id, hours) ==
    /\ T[id].amount >= 50000
    /\ T[id].status = "posted"
    /\ T[id].created_at >= DATE_SUB_HOUR(Now, hours)
    /\ T[id].created_at < Now

\* A double: units + e7 / 10^7 with 0 <= e7 < 10^7 (max_metric_c is a JSON number)
Double(units, e7) == [units |-> units, e7 |-> e7]

\* std::to_string(double) is sprintf("%f"): six decimals, rounded.  The decimal
\* literal the statement carries, as units + micro / 10^6.
to_string(d) ==
    LET micro == (d.e7 + 5) \div 10
    IN  IF micro >= 1000000
        THEN [units |-> d.units + 1, micro |-> 0]
        ELSE [units |-> d.units, micro |-> micro]

\* sum <= literal, for a sum of whole units
LessEqLiteral(sum, literal) ==
    \/ sum < literal.units
    \/ sum = literal.units /\ 0 <= literal.micro

\* AND COALESCE(ma...) >= minMetricA AND COALESCE(mb...) >= minMetricB
\* AND COALESCE(mc...) <= maxMetricC, the bounds spliced in with std::to_string
ServerThresholds(T, Lg, id, minMetricA, minMetricB, maxMetricC) ==
    /\ JoinedMetricA(T, T[id]) >= minMetricA
    /\ JoinedMetricB(T, Lg, T[id]) >= minMetricB
    /\ LessEqLiteral(JoinedMetricC(T, T[id]), to_string(maxMetricC))

\* The number of rows the FROM clause joins to transaction row t: one for
\* each pair of matching accounts rows, times the matching rows of each
\* LEFT JOINed metric table (one where none matches).  accounts.id is the
\* primary key and each metric table is grouped by its key.
LeftJoinRows(m, k) ==
    IF {g \in DOMAIN m : g = k} = {} THEN 1 ELSE Cardinality({g \in DOMAIN m : g = k})

\* metric_a_data joined without its GROUP BY: one row for each pair of the join
JoinRowsA_ungrouped(T, t) ==
    IF {q \in metric_a_join(T) : T[q[1]].sender_account_id = t.sender_account_id} = {}
    THEN 1
    ELSE Cardinality({q \in metric_a_join(T) :
                        T[q[1]].sender_account_id = t.sender_account_id})

\* metric_b_data joined without its GROUP BY: one row for each pair of the join
JoinRowsB_ungrouped(T, Lg, t) ==
    IF {q \in metric_b_join(T, Lg) : T[q[1]].sender_account_id = t.sender_account_id} = {}
    THEN 1
    ELSE Cardinality({q \in metric_b_join(T, Lg) :
                        T[q[1]].sender_account_id = t.sender_account_id})

JoinRowsA(T, t) == LeftJoinRows(metric_a_data(T), t.sender_account_id)
JoinRowsB(T, Lg, t) == LeftJoinRows(metric_b_data(T, Lg), t.sender_account_id)
JoinRowsC(T, t) == LeftJoinRows(metric_c_data(T), t.receiver_account_id)

ServerJoinRows(T, Lg, Acc, id) ==
    Cardinality({sa \in Acc : sa = T[id].sender_account_id})
        * Cardinality({ra \in Acc : ra = T[id].receiver_account_id})
        * JoinRowsA(T, T[id]) * JoinRowsB(T, Lg, T[id]) * JoinRowsC(T, T[id])

\* the rows of the SELECT before ORDER BY and LIMIT
ServerSelect(T, Lg, Acc, hours, minMetricA, minMetricB, maxMetricC) ==
    {RiskTransaction(T, Lg, id) : id \in
        {i \in DOMAIN T :
            /\ T[i].sender_account_id \in Acc
            /\ T[i].receiver_account_id \in Acc
            /\ ServerCandidate(T, i, hours)
            /\ ServerThresholds(T, Lg, i, minMetricA, minMetricB, maxMetricC)}}

\* ORDER BY t.created_at DESC alone
ServerOrder_time(r1, r2) == r1.transaction_time >= r2.transaction_time

\* ORDER BY t.created_at DESC, t.amount DESC
ServerOrder(r1, r2) ==
    \/ r1.transaction_time > r2.transaction_time
    \/ /\ r1.transaction_time = r2.transaction_time
       /\ r1.amount >= r2.amount

\* every order of the rows S the ORDER BY allows (rows that tie come in any
\* order); before is the set of the pairs <<r1, r2>> the ORDER BY lets stand
\* in that order
RECURSIVE Orderings(_, _)
Orderings(S, before) ==
    IF S = {} THEN {<<>>}
    ELSE UNION {{<<first>> \o rest : rest \in Orderings(S \ {first}, before)} :
                    first \in {x \in S : \A y \in S \ {x} : <<x, y>> \in before}}

ServerOrdered(S) == {p \in S \X S : ServerOrder(p[1], p[2])}

RowLimit == 1000

\* no LIMIT clause
LIMIT_none(s, n) == s

LIMIT(s, n) == IF Len(s) <= n THEN s ELSE SubSeq(s, 1, n)

\* What mysql_fetch_row can deliver, row by row, when the statement ends
\* with LIMIT limit: each selected record once for every row the joins make
\* of its transaction (<<record, k>> is its k-th copy).
queryRiskTransactionsLimit(T, Lg, Acc, timeRange, minMetricA, minMetricB, maxMetricC, limit) ==
    LET selected == ServerSelect(T, Lg, Acc, getTimeRangeHours(timeRange),
                                 minMetricA, minMetricB, maxMetricC)
        rows == UNION {{<<r, k>> : k \in 1..ServerJoinRows(T, Lg, Acc, r.transaction_id)} :
                            r \in selected}
        before == {p \in rows \X rows : ServerOrder(p[1][1], p[2][1])}
    IN  {LIMIT([i \in 1..Len(s) |-> s[i][1]], limit) : s \in Orderings(rows, before)}

\* queryRiskTransactions: the statement ends with LIMIT 1000
queryRiskTransactions(T, Lg, Acc, timeRange, minMetricA, minMetricB, maxMetricC) ==
    queryRiskTransactionsLimit(T, Lg, Acc, timeRange, minMetricA, minMetricB,
                               maxMetricC, RowLimit)

----------------------------------------------------------------------------
(* The CLI (Project3.exe): range_to_duration, main and the statement of    *)
(* build_sql.  The two ? parameters are the window [start, end) main       *)
(* computes; the metric tables use the NOW() of the database, taken to be  *)
(* the same instant and the same time zone as the client's clock.          *)

\* std::chrono::seconds
range_to_duration(token) ==
    CASE token = "24h" -> 24 * 3600
      [] token = "3d" -> (24 * 3) * 3600
      [] token = "7d" -> (24 * 7) * 3600
      [] token = "30d" -> (24 * 30) * 3600
      [] token = "6m" -> (24 * 30 * 6) * 3600
      [] token = "1y" -> (24 * 365) * 3600
      [] OTHER -> 0

large_in(T) ==
    {id \in DOMAIN T :
        /\ T[id].amount >= 50000
        /\ T[id].status = "posted"
        /\ T[id].created_at >= DATE_SUB_DAY(Now, 30)}

large_out(T) ==
    {id \in DOMAIN T :
        /\ T[id].amount >= 50000
        /\ T[id].status = "posted"
        /\ T[id].created_at >= DATE_SUB_DAY(Now, 30)}

\* large_out o JOIN large_in i ON ...: the pairs <<o.out_tx_id, i.in_tx_id>>
a_join(T) ==
    {p \in large_out(T) \X large_in(T) :
        /\ T[p[2]].receiver_account_id = T[p[1]].sender_account_id
        /\ T[p[1]].created_at >= T[p[2]].created_at
        /\ T[p[1]].created_at <= DATE_ADD_MINUTE(T[p[2]].created_at, 2)}

\* COUNT(DISTINCT o.out_tx_id) AS a_count ... GROUP BY o.account_id
a_counts(T) ==
    [acct \in {T[p[1]].sender_account_id : p \in a_join(T)} |->
        Cardinality({p[1] : p \in {q \in a_join(T) :
                                     T[q[1]].sender_account_id = acct}})]

\* large_out o JOIN logins l ON ...: the pairs <<o.out_tx_id, l.id>>
b_join(T, Lg) ==
    {p \in large_out(T) \X (DOMAIN Lg) :
        /\ Lg[p[2]].account_id = T[p[1]].sender_account_id
        /\ Lg[p[2]].login_at <= T[p[1]].created_at
        /\ T[p[1]].created_at <= DATE_ADD_MINUTE(Lg[p[2]].login_at, 5)}

b_counts(T, Lg) ==
    [acct \in {T[p[1]].sender_account_id : p \in b_join(T, Lg)} |->
        Cardinality({p[1] : p \in {q \in b_join(T, Lg) :
                                     T[q[1]].sender_account_id = acct}})]

c_sums(T) ==
    LET rows == {id \in DOMAIN T :
                    /\ T[id].status = "posted"
                    /\ T[id].created_at >= DATE_SUB_DAY(Now, 30)}
    IN  [acct \in {T[id].receiver_account_id : id \in rows} |->
            SumOver({id \in rows : T[id].receiver_account_id = acct},
                    [id \in DOMAIN T |-> T[id].amount])]

\* the window closed at its end
candidate_outs_closed(T, start, end) ==
    {id \in DOMAIN T :
        /\ T[id].amount >= 50000
        /\ T[id].status = "posted"
        /\ T[id].created_at >= start
        /\ T[id].created_at <= end}

\* t.amount >= 50000 AND t.status = 'posted' AND t.created_at >= ? AND t.created_at < ?
candidate_outs(T, start, end) ==
    {id \in DOMAIN T :
        /\ T[id].amount >= 50000
        /\ T[id].status = "posted"
        /\ T[id].created_at >= start
        /\ T[id].created_at < end}

CliRow(T, Lg, id) ==
    [tx_id |-> id,
     tx_time |-> T[id].created_at,
     amount |-> T[id].amount,
     victim_account_id |-> T[id].sender_account_id,
     suspicious_account_id |-> T[id].receiver_account_id,
     metric_a |-> COALESCE(a_counts(T), T[id].sender_account_id),
     metric_b |-> COALESCE(b_counts(T, Lg), T[id].sender_account_id),
     metric_c |-> COALESCE(c_sums(T), T[id].receiver_account_id)]

\* WHERE COALESCE(a.a_count, 0) > 0 AND COALESCE(b.b_count, 0) > 0
\*   AND COALESCE(c.c_sum, 0) = 0
CliSelect(T, Lg, start, end) ==
    {r \in {CliRow(T, Lg, id) : id \in candidate_outs(T, start, end)} :
        r.metric_a > 0 /\ r.metric_b > 0 /\ r.metric_c = 0}

\* ORDER BY t.created_at DESC
CliOrder(r1, r2) == r1.tx_time >= r2.tx_time

CliOrdered(S) == {p \in S \X S : CliOrder(p[1], p[2])}

\* The three dialects are the same relational statement (CTEs in postgres and
\* sqlserver, derived tables in mysql).
build_sql(dialect, T, Lg, start, end) ==
    LET rows == CliSelect(T, Lg, start, end)
    IN  CASE dialect = "postgres" -> Orderings(rows, CliOrdered(rows))
          [] dialect = "mysql" -> Orderings(rows, CliOrdered(rows))
          [] OTHER -> Orderings(rows, CliOrdered(rows))

\* CREATE FUNCTION GetTimeRangeHours of init.sql
GetTimeRangeHours(time_range) ==
    CASE time_range = "24h" -> 24
      [] time_range = "3d" -> 72
      [] time_range = "7d" -> 168
      [] time_range = "30d" -> 720
      [] time_range = "6m" -> 4320
      [] time_range = "1y" -> 8760
      [] OTHER -> 24

----------------------------------------------------------------------------
(* The stored procedure GetRiskTransactions of init.sql: the three metric  *)
(* tables are taken over the window [start_time, end_time) of the call.    *)

ProcMetricAJoin(T, start_time, end_time) ==
    {p \in (DOMAIN T) \X (DOMAIN T) :
        LET t_out == T[p[1]]
            t_in == T[p[2]]
        IN  /\ t_in.receiver_account_id = t_out.sender_account_id
            /\ t_out.amount >= 50000
            /\ t_out.status = "posted"
            /\ t_out.created_at >= start_time
            /\ t_out.created_at < end_time
            /\ t_in.amount >= 50000
            /\ t_in.status = "posted"
            /\ t_in.created_at >= start_time
            /\ t_in.created_at < end_time
            /\ t_out.created_at >= t_in.created_at
            /\ t_out.created_at <= DATE_ADD_MINUTE(t_in.created_at, 2)}

ProcMetricA(T, start_time, end_time) ==
    [acct \in {T[p[1]].sender_account_id : p \in ProcMetricAJoin(T, start_time, end_time)} |->
        Cardinality({p[1] : p \in {q \in ProcMetricAJoin(T, start_time, end_time) :
                                     T[q[1]].sender_account_id = acct}})]

ProcMetricBJoin(T, Lg, start_time, end_time) ==
    {p \in (DOMAIN T) \X (DOMAIN Lg) :
        LET t == T[p[1]]
            l == Lg[p[2]]
        IN  /\ l.account_id = t.sender_account_id
            /\ t.amount >= 50000
            /\ t.status = "posted"
            /\ t.created_at >= start_time
            /\ t.created_at < end_time
            /\ l.login_at >= start_time
            /\ l.login_at < end_time
            /\ l.login_at <= t.created_at
            /\ t.created_at <= DATE_ADD_MINUTE(l.login_at, 5)}

ProcMetricB(T, Lg, start_time, end_time) ==
    [acct \in {T[p[1]].sender_account_id : p \in ProcMetricBJoin(T, Lg, start_time, end_time)} |->
        Cardinality({p[1] : p \in {q \in ProcMetricBJoin(T, Lg, start_time, end_time) :
                                     T[q[1]].sender_account_id = acct}})]

ProcMetricC(T, start_time, end_time) ==
    LET rows == {id \in DOMAIN T :
                    /\ T[id].status = "posted"
                    /\ T[id].created_at >= start_time
                    /\ T[id].created_at < end_time}
    IN  [acct \in {T[id].receiver_account_id : id \in rows} |->
            SumOver({id \in rows : T[id].receiver_account_id = acct},
                    [id \in DOMAIN T |-> T[id].amount])]

ProcRow(T, Lg, id, start_time, end_time) ==
    LET a == COALESCE(ProcMetricA(T, start_time, end_time), T[id].sender_account_id)
        b == COALESCE(ProcMetricB(T, Lg, start_time, end_time), T[id].sender_account_id)
        c == COALESCE(ProcMetricC(T, start_time, end_time), T[id].receiver_account_id)
    IN  [transaction_id |-> id,
         transaction_time |-> T[id].created_at,
         amount |-> T[id].amount,
         victim_account_id |-> T[id].sender_account_id,
         suspicious_account_id |-> T[id].receiver_account_id,
         metric_a |-> a,
         metric_b |-> b,
         metric_c |-> c,
         risk_level |-> risk_level(a, b, c)]

\* SELECT DISTINCT ... ORDER BY t.created_at DESC, t.amount DESC
GetRiskTransactions(T, Lg, Acc, time_range_hours, min_metric_a, min_metric_b, max_metric_c) ==
    LET end_time == Now
        start_time == DATE_SUB_HOUR(end_time, time_range_hours)
        rows == {ProcRow(T, Lg, id, start_time, end_time) : id \in
                    {i \in DOMAIN T :
                        /\ T[i].sender_account_id \in Acc
                        /\ T[i].receiver_account_id \in Acc
                        /\ T[i].amount >= 50000
                        /\ T[i].status = "posted"
                        /\ T[i].created_at >= start_time
                        /\ T[i].created_at < end_time}}
        kept == {r \in rows : /\ r.metric_a >= min_metric_a
                               /\ r.metric_b >= min_metric_b
                               /\ r.metric_c <= max_metric_c}
    IN  Orderings(kept, ServerOrdered(kept))

----------------------------------------------------------------------------
(* Requests *)

\* time_range / --range: two tokens of the table and one that is not ("2w")
TimeRanges == {"30d", "1y", "2w"}
MinMetricAs == {0, 1}
MinMetricBs == {0, 1}
\* max_metric_c of a request: 0, 100000 and 49999.9999996
MaxMetricCs == {Double(0, 0), Double(100000, 0), Double(49999, 9999996)}
Dialects == {"postgres", "mysql", "sqlserver"}
\* arguments of CALL GetRiskTransactions
ProcHours == {720, 8760}
ProcMaxMetricCs == {0, 100000}

----------------------------------------------------------------------------
(* The stored procedure GetRiskTransactionsBillionScale: a temporary table *)
(* of at most 100000 large posted transactions of the last 30 days, then   *)
(* one page of its rows in the window.  The procedure does not use         *)
(* min_metric_a, min_metric_b and max_metric_c.                            *)

WorkingSetCap == 100000

\* the working set filled without the lower bound of the 30-day horizon
temp_large_transactions_any_age(T, start_time_30d, end_time) ==
    {{id \in DOMAIN T :
        /\ T[id].amount >= 50000
        /\ T[id].status = "posted"
        /\ T[id].created_at < end_time}}

\* INSERT INTO temp_large_transactions SELECT ... LIMIT 100000: without an
\* ORDER BY the rows kept are any WorkingSetCap of the matching ones
temp_large_transactions(T, start_time_30d, end_time) ==
    LET matching == {id \in DOMAIN T :
                        /\ T[id].amount >= 50000
                        /\ T[id].status = "posted"
                        /\ T[id].created_at >= start_time_30d
                        /\ T[id].created_at < end_time}
    IN  IF Cardinality(matching) <= WorkingSetCap
        THEN {matching}
        ELSE {S \in SUBSET matching : Cardinality(S) = WorkingSetCap}

\* the select list: the metrics and the level are literals
BillionScaleRow(T, id) ==
    [transaction_id |-> id,
     transaction_time |-> T[id].created_at,
     amount |-> T[id].amount,
     victim_account_id |-> T[id].sender_account_id,
     suspicious_account_id |-> T[id].receiver_account_id,
     metric_a |-> 1,
     metric_b |-> 1,
     metric_c |-> 0,
     risk_level |-> "HIGH"]

\* FROM temp_large_transactions t INNER JOIN accounts sa ... INNER JOIN
\* accounts ra ... WHERE t.created_at >= start_time AND t.created_at < end_time
BillionScaleSelect(T, Acc, temp, start_time, end_time) ==
    {BillionScaleRow(T, id) : id \in
        {i \in temp :
            /\ T[i].sender_account_id \in Acc
            /\ T[i].receiver_account_id \in Acc
            /\ T[i].created_at >= start_time
            /\ T[i].created_at < end_time}}

\* the page with the first row one too far
PageOffByOne(s, page_size, page_offset) ==
    SubSeq(s, page_offset + 2,
           IF page_offset + 1 + page_size <= Len(s) THEN page_offset + 1 + page_size ELSE Len(s))

\* LIMIT page_size OFFSET page_offset
Page(s, page_size, page_offset) ==
    SubSeq(s, page_offset + 1,
           IF page_offset + page_size <= Len(s) THEN page_offset + page_size ELSE Len(s))

GetRiskTransactionsBillionScale(T, Acc, time_range_hours, page_offset, page_size) ==
    LET end_time == Now
        start_time == DATE_SUB_HOUR(end_time, time_range_hours)
        start_time_30d == DATE_SUB_DAY(end_time, 30)
    IN  UNION {{Page(s, page_size, page_offset) : s \in
                    Orderings(BillionScaleSelect(T, Acc, temp, start_time, end_time),
                              ServerOrdered(BillionScaleSelect(T, Acc, temp,
                                                               start_time, end_time)))} :
                temp \in temp_large_transactions(T, start_time_30d, end_time)}

----------------------------------------------------------------------------
(* The frontend (app.js) *)

\* the same loop without the seen test
displayTransactions_all(txs) == txs

\* displayTransactions: the records it renders, the first of each
\* transaction_id in the order of the list
displayTransactions(txs) ==
    LET unique == SelectSeq([i \in 1..Len(txs) |-> [pos |-> i, tx |-> txs[i]]],
                            LAMBDA e : \A j \in 1..(e.pos - 1) :
                                txs[j].transaction_id # e.tx.transaction_id)
    IN  [i \in 1..Len(unique) |-> unique[i].tx]

----------------------------------------------------------------------------
\* the six tokens of the three mappings and one that is none of them
AllTimeRanges == {"24h", "3d", "7d", "30d", "6m", "1y", "2w"}

\* the starts of the six windows, and one second before the longest
RangeTxTimes ==
    {DATE_SUB_HOUR(Now, h) : h \in {24, 72, 168, 720, 4320, 8760}}
        \cup {DATE_SUB_HOUR(Now, 8760) - 1}

\* Tables for the order and the pages of the rows: up to MaxRowsTx posted
\* large transactions of two amounts, made one second before the 30-day
\* horizon or at its start, and logins at its start.  ScaledRowLimit stands
\* for the LIMIT 1000 of queryRiskTransactions over these tables.
MaxRowsTx == 3
ScaledRowLimit == 2
RowsTxTimes == {HorizonStart - 1, HorizonStart}
RowsLoginTimes == {HorizonStart}
LargeAmounts == {50000, 60000}
BillionScaleHours == {720, 8760}
PageOffsets == 0..3
PageSizes == 0..2

----------------------------------------------------------------------------
(* The handlers of RiskAnalysisServer on the threads of httplib::Server.     *)
(* listen() hands every request to a thread of its pool; the lambdas of      *)
(* startServer capture this and call the MySQL client on the one mysql_conn  *)
(* of the object, without a lock.  A call of the client library is taken as  *)
(* one step.  The connection is READY, or holds the result of a statement    *)
(* that mysql_store_result has not read yet (GET_RESULT); a statement sent   *)
(* in that state fails with "commands out of sync".                          *)

Workers == 1..MaxWorkers

\* the statements of GET /api/stats, and the one of POST /api/risk-analysis
StatsQueries == 4
Statements(kind) == IF kind = "stats" THEN StatsQueries ELSE 1

IdleWorker == [pc |-> "idle", kind |-> "none", left |-> 0, out_of_sync |-> FALSE, http_status |-> 0]

\* the thread pool picks a request up
HandlerStart(w) ==
    /\ workers[w].pc = "idle"
    /\ \E kind \in {"risk-analysis", "stats"} :
        workers' = [workers EXCEPT ![w] =
            [pc |-> "mysql_query", kind |-> kind, left |-> Statements(kind),
             out_of_sync |-> FALSE, http_status |-> 0]]
    /\ UNCHANGED <<accounts, logins, transactions, response, conn, sockets, threads>>

\* mysql_query(mysql_conn, ...): on failure queryRiskTransactions returns the
\* empty vector, which the handler answers with status "success" and 200;
\* the stats handler throws and answers 500
MysqlQuery(w) ==
    /\ workers[w].pc = "mysql_query"
    /\ IF conn.status = "READY"
       THEN /\ conn' = [status |-> "GET_RESULT", owner |-> w]
            /\ workers' = [workers EXCEPT ![w].pc = "mysql_store_result"]
       ELSE /\ conn' = conn
            /\ workers' = [workers EXCEPT
                    ![w].pc = "respond",
                    ![w].out_of_sync = TRUE,
                    ![w].http_status = IF workers[w].kind = "stats" THEN 500 ELSE 200]
    /\ UNCHANGED <<accounts, logins, transactions, response, sockets, threads>>

\* mysql_store_result(mysql_conn) reads the waiting result and leaves the
\* connection READY
MysqlStoreResult(w) ==
    /\ workers[w].pc = "mysql_store_result"
    /\ conn' = [status |-> "READY", owner |-> 0]
    /\ workers' = [workers EXCEPT ![w].pc = "mysql_free_result"]
    /\ UNCHANGED <<accounts, logins, transactions, response, sockets, threads>>

\* mysql_fetch_row over the stored rows, mysql_free_result; then the next
\* statement of the handler, or its answer
MysqlFreeResult(w) ==
    /\ workers[w].pc = "mysql_free_result"
    /\ workers' = [workers EXCEPT
            ![w].left = @ - 1,
            ![w].pc = IF workers[w].left > 1 THEN "mysql_query" ELSE "respond",
            ![w].http_status = IF workers[w].left > 1 THEN 0 ELSE 200]
    /\ UNCHANGED <<accounts, logins, transactions, response, conn, sockets, threads>>

\* res.set_content(...): the handler returns
HandlerRespond(w) ==
    /\ workers[w].pc = "respond"
    /\ workers' = [workers EXCEPT ![w] = IdleWorker]
    /\ UNCHANGED <<accounts, logins, transactions, response, conn, sockets, threads>>

----------------------------------------------------------------------------
(* SimpleHTTPServer: run() accepts a connection and detaches a thread that   *)
(* calls handleRequest(client_socket) and then closesocket(client_socket).   *)
(* The thread holds its own copy of the handle.  The system gives accept a   *)
(* free handle, which may be one that an earlier connection has closed.      *)
(* Connection n is handled by thread n; threads[n] also counts what any      *)
(* thread did to the socket of connection n.                                 *)

Handles == 1..MaxHandles

\* accept(server_socket, ...) and std::thread(...).detach()
Accept ==
    /\ Len(threads) < MaxConnections
    /\ \E h \in Handles :
        /\ sockets[h] = 0
        /\ sockets' = [sockets EXCEPT ![h] = Len(threads) + 1]
        /\ threads' = Append(threads,
                [pc |-> "recv", client_socket |-> h, bytes_received |-> 0,
                 sends |-> 0, closes |-> 0, foreign |-> FALSE])
    /\ UNCHANGED <<accounts, logins, transactions, response, conn, workers>>

\* an operation of thread t on handle h reaches the connection open on h
Touch(T, t, h, field) ==
    IF sockets[h] = 0 THEN T
    ELSE [T EXCEPT ![sockets[h]][field] = @ + 1,
                   ![sockets[h]].foreign = @ \/ sockets[h] # t]

\* handleRequest that closes the socket itself when recv yields no data
Recv_closing(t) ==
    /\ t \in DOMAIN threads
    /\ threads[t].pc = "recv"
    /\ \E bytes_received \in {-1, 0, 1} :
        IF bytes_received <= 0
        THEN /\ threads' = [Touch(threads, t, threads[t].client_socket, "closes") EXCEPT
                                ![t].bytes_received = bytes_received,
                                ![t].pc = "closesocket"]
             /\ sockets' = [sockets EXCEPT ![threads[t].client_socket] = 0]
        ELSE /\ threads' = [threads EXCEPT ![t].bytes_received = bytes_received,
                                           ![t].pc = "send"]
             /\ sockets' = sockets
    /\ UNCHANGED <<accounts, logins, transactions, response, conn, workers>>

\* handleRequest up to the test of bytes_received: recv returns an error, the
\* end of the stream, or data; without data handleRequest returns
Recv(t) ==
    /\ t \in DOMAIN threads
    /\ threads[t].pc = "recv"
    /\ \E bytes_received \in {-1, 0, 1} :
        threads' = [threads EXCEPT
            ![t].bytes_received = bytes_received,
            ![t].pc = IF bytes_received <= 0 THEN "closesocket" ELSE "send"]
    /\ UNCHANGED <<accounts, logins, transactions, response, conn, workers, sockets>>

\* the rest of handleRequest: the response is built and sent
Send(t) ==
    /\ t \in DOMAIN threads
    /\ threads[t].pc = "send"
    /\ threads' = [Touch(threads, t, threads[t].client_socket, "sends") EXCEPT
                        ![t].pc = "closesocket"]
    /\ UNCHANGED <<accounts, logins, transactions, response, conn, workers, sockets>>

\* closesocket(client_socket) after handleRequest has returned; the thread ends
CloseSocket(t) ==
    /\ t \in DOMAIN threads
    /\ threads[t].pc = "closesocket"
    /\ threads' = [Touch(threads, t, threads[t].client_socket, "closes") EXCEPT
                        ![t].pc = "done"]
    /\ sockets' = [sockets EXCEPT ![threads[t].client_socket] = 0]
    /\ UNCHANGED <<accounts, logins, transactions, response, conn, workers>>

NoResponse == [op |-> "none"]

----------------------------------------------------------------------------
(* Actions *)

Init ==
    /\ accounts = {}
    /\ logins = <<>>
    /\ transactions = <<>>
    /\ response = NoResponse
    /\ conn = [status |-> "READY", owner |-> 0]
    /\ workers = [w \in Workers |-> IdleWorker]
    /\ sockets = [h \in Handles |-> 0]
    /\ threads = <<>>

\* INSERT INTO accounts
InsertAccount ==
    /\ response = NoResponse
    /\ Cardinality(accounts) < MaxAccounts
    /\ accounts' = accounts \cup {Cardinality(accounts) + 1}
    /\ UNCHANGED <<logins, transactions, response>>
    /\ UNCHANGED serverVars

\* INSERT INTO logins; FOREIGN KEY (account_id) REFERENCES accounts(id)
InsertLogin(times) ==
    /\ response = NoResponse
    /\ Cardinality(DOMAIN logins) < MaxLogins
    /\ \E a \in accounts, at \in times :
        logins' = Extend(logins, [account_id |-> a, login_at |-> at])
    /\ UNCHANGED <<accounts, transactions, response>>
    /\ UNCHANGED serverVars

\* INSERT INTO transactions; both account ids are foreign keys
InsertTransactionOf(times, amounts, statuses, max) ==
    /\ response = NoResponse
    /\ Cardinality(DOMAIN transactions) < max
    /\ \E s \in accounts, r \in accounts, amt \in amounts,
          st \in statuses, at \in times :
        transactions' = Extend(transactions,
            [sender_account_id |-> s, receiver_account_id |-> r,
             amount |-> amt, status |-> st, created_at |-> at])
    /\ UNCHANGED <<accounts, logins, response>>
    /\ UNCHANGED serverVars

\* A transactions row that names an account with no accounts row. The tables
\* are created IF NOT EXISTS and without an ENGINE clause: a table that was
\* already there, or a storage engine that parses FOREIGN KEY without
\* enforcing it, admits such a row.
InsertOrphanTransaction(times, amounts, statuses, max) ==
    /\ response = NoResponse
    /\ Cardinality(DOMAIN transactions) < max
    /\ \E s \in 1..MaxAccounts, r \in 1..MaxAccounts, amt \in amounts,
          st \in statuses, at \in times :
        /\ s \notin accounts \/ r \notin accounts
        /\ transactions' = Extend(transactions,
            [sender_account_id |-> s, receiver_account_id |-> r,
             amount |-> amt, status |-> st, created_at |-> at])
    /\ UNCHANGED <<accounts, logins, response>>
    /\ UNCHANGED serverVars

InsertTransaction(times) == InsertTransactionOf(times, Amounts, Statuses, MaxTx)

\* POST /api/risk-analysis: the handler of startServer.  scan_ok is whether
\* mysql_query and mysql_store_result both succeed; when one fails
\* queryRiskTransactions returns the empty vector.  limit is the LIMIT of
\* the statement.
RiskAnalysisOf(timeRanges, minMetricAs, minMetricBs, maxMetricCs, limit) ==
    /\ response = NoResponse
    /\ \E timeRange \in timeRanges, minMetricA \in minMetricAs,
          minMetricB \in minMetricBs, maxMetricC \in maxMetricCs,
          scan_ok \in BOOLEAN :
        \E rows \in IF scan_ok
                    THEN queryRiskTransactionsLimit(transactions, logins, accounts,
                             timeRange, minMetricA, minMetricB, maxMetricC, limit)
                    ELSE {<<>>} :
            response' = [op |-> "risk-analysis",
                         scan_ok |-> scan_ok,
                         status |-> "success",
                         total_count |-> Len(rows),
                         time_range |-> timeRange,
                         min_metric_a |-> minMetricA,
                         min_metric_b |-> minMetricB,
                         max_metric_c |-> maxMetricC,
                         transactions |-> rows]
    /\ UNCHANGED <<accounts, logins, transactions>>
    /\ UNCHANGED serverVars

RiskAnalysis ==
    RiskAnalysisOf(TimeRanges, MinMetricAs, MinMetricBs, MaxMetricCs, RowLimit)

\* request.get(key, default): a member of the parsed body, {} when the body
\* does not have it
RequestGet(member, default) ==
    IF member = {} THEN default ELSE CHOOSE v \in member : TRUE

\* bodies of POST /api/risk-analysis: each member present or absent
RequestBodies ==
    [time_range : {{}, {"1y"}},
     min_metric_a : {{}, {0}},
     min_metric_b : {{}, {0}},
     max_metric_c : {{}, {Double(1000000, 0)}}]

\* POST /api/risk-analysis from the parsed body to the response
PostRiskAnalysis(bodies, limit) ==
    /\ response = NoResponse
    /\ \E request \in bodies, scan_ok \in BOOLEAN :
        LET timeRange == RequestGet(request.time_range, "24h")
            minMetricA == RequestGet(request.min_metric_a, 1)
            minMetricB == RequestGet(request.min_metric_b, 1)
            maxMetricC == RequestGet(request.max_metric_c, Double(0, 0))
        IN  \E rows \in IF scan_ok
                        THEN queryRiskTransactionsLimit(transactions, logins, accounts,
                                 timeRange, minMetricA, minMetricB, maxMetricC, limit)
                        ELSE {<<>>} :
                response' = [op |-> "risk-analysis",
                             request |-> request,
                             scan_ok |-> scan_ok,
                             status |-> "success",
                             total_count |-> Len(rows),
                             time_range |-> timeRange,
                             min_metric_a |-> minMetricA,
                             min_metric_b |-> minMetricB,
                             max_metric_c |-> maxMetricC,
                             transactions |-> rows]
    /\ UNCHANGED <<accounts, logins, transactions>>
    /\ UNCHANGED serverVars

\* Project3.exe --dialect d --range token: main
CliQueryOf(tokens) ==
    /\ response = NoResponse
    /\ \E dialect \in Dialects, range_token \in tokens :
        LET dur == range_to_duration(range_token)
            start == Now - dur
            end == Now
        IN  \E rows \in build_sql(dialect, transactions, logins, start, end) :
                response' = [op |-> "cli",
                             dialect |-> dialect,
                             range_token |-> range_token,
                             start |-> start,
                             end |-> end,
                             exit_code |-> 0,
                             transactions |-> rows]
    /\ UNCHANGED <<accounts, logins, transactions>>
    /\ UNCHANGED serverVars

CliQuery == CliQueryOf(TimeRanges)

\* CALL GetRiskTransactions(...)
CallGetRiskTransactions ==
    /\ response = NoResponse
    /\ \E hours \in ProcHours, min_a \in MinMetricAs,
          min_b \in MinMetricBs, max_c \in ProcMaxMetricCs :
        \E rows \in GetRiskTransactions(transactions, logins, accounts,
                                        hours, min_a, min_b, max_c) :
            response' = [op |-> "GetRiskTransactions",
                         time_range_hours |-> hours,
                         min_metric_a |-> min_a,
                         min_metric_b |-> min_b,
                         max_metric_c |-> max_c,
                         transactions |-> rows]
    /\ UNCHANGED <<accounts, logins, transactions>>
    /\ UNCHANGED serverVars

\* SELECT GetTimeRangeHours(token)
CallGetTimeRangeHours ==
    /\ response = NoResponse
    /\ \E token \in AllTimeRanges :
        response' = [op |-> "GetTimeRangeHours",
                     time_range |-> token,
                     hours |-> GetTimeRangeHours(token)]
    /\ UNCHANGED <<accounts, logins, transactions>>
    /\ UNCHANGED serverVars

\* CALL GetRiskTransactionsBillionScale(...)
CallGetRiskTransactionsBillionScale ==
    /\ response = NoResponse
    /\ \E hours \in BillionScaleHours, page_offset \in PageOffsets,
          page_size \in PageSizes :
        \E rows \in GetRiskTransactionsBillionScale(transactions, accounts, hours,
                                                    page_offset, page_size) :
            response' = [op |-> "GetRiskTransactionsBillionScale",
                         time_range_hours |-> hours,
                         page_offset |-> page_offset,
                         page_size |-> page_size,
                         transactions |-> rows]
    /\ UNCHANGED <<accounts, logins, transactions>>
    /\ UNCHANGED serverVars

\* the answer is sent and forgotten
Deliver ==
    /\ response # NoResponse
    /\ response' = NoResponse
    /\ UNCHANGED <<accounts, logins, transactions>>
    /\ UNCHANGED serverVars

Step(txTimes, loginTimes) ==
    \/ InsertAccount
    \/ InsertLogin(loginTimes)
    \/ InsertTransaction(txTimes)
    \/ RiskAnalysis
    \/ CliQuery
    \/ CallGetRiskTransactions
    \/ Deliver

Next == Step(TxTimes, LoginTimes)

Spec == Init /\ [][Next]_vars

NextChain == Step(ChainTxTimes, ChainLoginTimes)

SpecChain == Init /\ [][NextChain]_vars

\* Every time-range token, over transactions made at the starts of the six
\* windows; the thresholds exclude nothing.
RiskAnalysisRange ==
    RiskAnalysisOf(AllTimeRanges, {0}, {0}, {Double(100000, 0)}, RowLimit)

CliQueryRange == CliQueryOf(AllTimeRanges)

NextRange ==
    \/ InsertAccount
    \/ InsertTransaction(RangeTxTimes)
    \/ RiskAnalysisRange
    \/ CliQueryRange
    \/ CallGetTimeRangeHours
    \/ Deliver

SpecRange == Init /\ [][NextRange]_vars

\* The three queries over tables whose rows tie on created_at and outnumber
\* the row limit.
RiskAnalysisRows ==
    RiskAnalysisOf({"1y"}, {0}, {0}, {Double(1000000, 0)}, ScaledRowLimit)

CliQueryRows == CliQueryOf({"1y"})

NextRows ==
    \/ InsertAccount
    \/ InsertLogin(RowsLoginTimes)
    \/ InsertTransactionOf(RowsTxTimes, LargeAmounts, {"posted"}, MaxRowsTx)
    \/ RiskAnalysisRows
    \/ CliQueryRows
    \/ CallGetRiskTransactionsBillionScale
    \/ Deliver

SpecRows == Init /\ [][NextRows]_vars

\* The server's query and the paged procedure over tables without enforced
\* foreign keys.
RiskAnalysisOrphan ==
    RiskAnalysisOf({"1y"}, {0}, {0}, {Double(1000000, 0)}, RowLimit)

NextOrphan ==
    \/ InsertAccount
    \/ InsertTransactionOf(RowsTxTimes, LargeAmounts, {"posted"}, MaxTx)
    \/ InsertOrphanTransaction(RowsTxTimes, LargeAmounts, {"posted"}, MaxTx)
    \/ RiskAnalysisOrphan
    \/ CallGetRiskTransactionsBillionScale
    \/ Deliver

SpecOrphan == Init /\ [][NextOrphan]_vars

\* The server's query over the events of the scenario: 60000 received at T0,
\* a login at T0 + 30 s, 55000 sent at T0 + 90 s.
ScenarioT0 == Now - 3600
ScenarioTxTimes == {ScenarioT0, ScenarioT0 + 90}
ScenarioAmounts == {60000, 55000}
ScenarioLoginTimes == {ScenarioT0 + 30}

RiskAnalysisScenario ==
    RiskAnalysisOf({"24h"}, {1}, {1}, {Double(0, 0), Double(100000, 0)}, RowLimit)

NextScenario ==
    \/ InsertAccount
    \/ InsertLogin(ScenarioLoginTimes)
    \/ InsertTransactionOf(ScenarioTxTimes, ScenarioAmounts, {"posted"}, MaxTx)
    \/ RiskAnalysisScenario
    \/ Deliver

SpecScenario == Init /\ [][NextScenario]_vars

\* Requests handled at the same time over the one connection.
NextHandlers ==
    \/ \E w \in Workers : HandlerStart(w)
    \/ \E w \in Workers : MysqlQuery(w)
    \/ \E w \in Workers : MysqlStoreResult(w)
    \/ \E w \in Workers : MysqlFreeResult(w)
    \/ \E w \in Workers : HandlerRespond(w)

SpecHandlers == Init /\ [][NextHandlers]_vars

\* Requests with members left out, over tables whose rows outnumber the row
\* limit.
PostRiskAnalysisRows == PostRiskAnalysis(RequestBodies, ScaledRowLimit)

NextRequest ==
    \/ InsertAccount
    \/ InsertTransactionOf(RowsTxTimes, LargeAmounts, {"posted"}, MaxRowsTx)
    \/ PostRiskAnalysisRows
    \/ Deliver

SpecRequest == Init /\ [][NextRequest]_vars

\* The thread-per-connection server under any interleaving of its threads.
NextSockets ==
    \/ Accept
    \/ \E t \in 1..MaxConnections : Recv(t)
    \/ \E t \in 1..MaxConnections : Send(t)
    \/ \E t \in 1..MaxConnections : CloseSocket(t)

SpecSockets == Init /\ [][NextSockets]_vars

----------------------------------------------------------------------------
(* What the claims speak of, stated over the tables directly *)

TxIds == DOMAIN transactions
Tx(id) == transactions[id]
AccountIds == 1..MaxAccounts

\* the records of the answer in the state
Records ==
    IF response.op = "none" THEN {}
    ELSE {response.transactions[k] : k \in DOMAIN response.transactions}

\* POST /api/risk-analysis answered from a scan the database ran
ServerAnswered == response.op = "risk-analysis" /\ response.scan_ok

ReturnedIds == {r.transaction_id : r \in Records}

IsPosted(id) == Tx(id).status = "posted"
IsLarge(id) == Tx(id).amount >= 50000
InHorizon(id) == Tx(id).created_at >= Now - 30 * 86400

\* t_in -> t_out is a chain of account acct within the 2-minute lag
IsChain(t_in, t_out, acct) ==
    /\ Tx(t_in).receiver_account_id = acct
    /\ Tx(t_out).sender_account_id = acct
    /\ IsPosted(t_in) /\ IsLarge(t_in) /\ InHorizon(t_in)
    /\ IsPosted(t_out) /\ IsLarge(t_out) /\ InHorizon(t_out)
    /\ Tx(t_in).created_at <= Tx(t_out).created_at
    /\ Tx(t_out).created_at <= Tx(t_in).created_at + 120

ChainOuts(acct) == {t_out \in TxIds : \E t_in \in TxIds : IsChain(t_in, t_out, acct)}

\* login l is followed by transaction t of account acct within the 5-minute lag
IsLoginThenTransfer(l, t, acct) ==
    /\ logins[l].account_id = acct
    /\ Tx(t).sender_account_id = acct
    /\ IsPosted(t) /\ IsLarge(t)
    /\ logins[l].login_at <= Tx(t).created_at
    /\ Tx(t).created_at <= logins[l].login_at + 300

LoginOuts(acct) ==
    {t \in TxIds : \E l \in DOMAIN logins : IsLoginThenTransfer(l, t, acct)}

LoginOutsInHorizon(acct) == {t \in LoginOuts(acct) : InHorizon(t)}

\* posted transactions received by acct within the lookback horizon
Inbound(acct) ==
    {t \in TxIds : Tx(t).receiver_account_id = acct /\ IsPosted(t) /\ InHorizon(t)}

InboundSum(acct) == SumOver(Inbound(acct), [t \in TxIds |-> Tx(t).amount])

\* the reporting window of the answer in the state
WindowStart ==
    CASE response.op = "risk-analysis" ->
            Now - 3600 * getTimeRangeHours(response.time_range)
      [] response.op = "GetRiskTransactions" -> Now - 3600 * response.time_range_hours
      [] OTHER -> response.start
WindowEnd == IF response.op = "cli" THEN response.end ELSE Now

\* posted, large, start <= created_at < end
WindowCandidates ==
    {t \in TxIds : /\ IsPosted(t) /\ IsLarge(t)
                   /\ WindowStart <= Tx(t).created_at
                   /\ Tx(t).created_at < WindowEnd}

\* d < sum for a Double d and a sum of whole units
Exceeds(sum, d) == sum > d.units \/ (sum = d.units /\ 0 > d.e7)

----------------------------------------------------------------------------
(* C1: every record the server returns has risk_level HIGH exactly when    *)
(* its metric_a > 0, metric_b > 0 and metric_c = 0, MEDIUM exactly when it *)
(* is not HIGH and metric_a > 0 or metric_b > 0, LOW otherwise; two        *)
(* records with the same three metrics have the same risk_level.           *)
C1_RiskLevel ==
    ServerAnswered =>
        /\ \A r \in Records :
            LET high == r.metric_a > 0 /\ r.metric_b > 0 /\ r.metric_c = 0
                medium == ~high /\ (r.metric_a > 0 \/ r.metric_b > 0)
            IN  /\ r.risk_level \in {"HIGH", "MEDIUM", "LOW"}
                /\ (r.risk_level = "HIGH") <=> high
                /\ (r.risk_level = "MEDIUM") <=> medium
                /\ (r.risk_level = "LOW") <=> (~high /\ ~medium)
        /\ \A r1, r2 \in Records :
            (/\ r1.metric_a = r2.metric_a
             /\ r1.metric_b = r2.metric_b
             /\ r1.metric_c = r2.metric_c) => r1.risk_level = r2.risk_level

\* an answer with a HIGH record and a record of another tier
C1_Witness ==
    /\ ServerAnswered
    /\ \E r1, r2 \in Records : r1.risk_level = "HIGH" /\ r2.risk_level # "HIGH"

----------------------------------------------------------------------------
(* C2: in an answer of the server, a candidate of the window is left out   *)
(* if metric_a of its sender is below min_metric_a, or metric_b of its     *)
(* sender is below min_metric_b, or metric_c of its receiver is above      *)
(* max_metric_c; below the row limit every other candidate is returned.    *)
FailsThresholds(t) ==
    \/ Cardinality(ChainOuts(Tx(t).sender_account_id)) < response.min_metric_a
    \/ Cardinality(LoginOutsInHorizon(Tx(t).sender_account_id)) < response.min_metric_b
    \/ Exceeds(InboundSum(Tx(t).receiver_account_id), response.max_metric_c)

C2_Filter ==
    ServerAnswered =>
        \A t \in WindowCandidates :
            /\ FailsThresholds(t) => t \notin ReturnedIds
            /\ (/\ ~FailsThresholds(t)
                /\ Cardinality({u \in WindowCandidates : ~FailsThresholds(u)}) <= RowLimit)
                    => t \in ReturnedIds

\* the same with max_metric_c restricted to values with at most six decimals
C2_FilterSixDecimals ==
    (ServerAnswered /\ response.max_metric_c.e7 % 10 = 0) => C2_Filter

----------------------------------------------------------------------------
(* C3: in queryRiskTransactions and in build_sql, metric_a of an account   *)
(* is the number of distinct posted outbound transactions of the account   *)
(* with amount >= 50000 inside the 30-day lookback horizon that follow a   *)
(* posted inbound transaction of the account with amount >= 50000 inside   *)
(* the horizon by at most 2 minutes (t_in <= t_out <= t_in + 2 minutes).   *)
C3_MetricA ==
    /\ \A acct \in AccountIds :
        /\ COALESCE(metric_a_data(transactions), acct) = Cardinality(ChainOuts(acct))
        /\ COALESCE(a_counts(transactions), acct) = Cardinality(ChainOuts(acct))
    /\ (ServerAnswered \/ response.op = "cli") =>
        \A r \in Records : r.metric_a = Cardinality(ChainOuts(r.victim_account_id))

\* a returned record whose sender has one outbound transaction that follows
\* two inbound ones: two join rows, metric_a = 1
C3_Witness ==
    /\ ServerAnswered
    /\ \E r \in Records :
        /\ r.metric_a = 1
        /\ Cardinality({t_in \in TxIds :
                IsChain(t_in, r.transaction_id, r.victim_account_id)}) = 2

----------------------------------------------------------------------------
(* C4: both bounds of the metric A lag are inclusive.  For an inbound and  *)
(* an outbound large posted transaction of one account inside the horizon, *)
(* the outbound one is counted on account of the inbound one when its      *)
(* created_at equals in_time or in_time + 2 minutes, and is not counted on *)
(* account of it one second before in_time or one second after             *)
(* in_time + 2 minutes.                                                    *)
IsInOutPair(t_in, t_out) ==
    /\ Tx(t_in).receiver_account_id = Tx(t_out).sender_account_id
    /\ IsPosted(t_in) /\ IsLarge(t_in) /\ InHorizon(t_in)
    /\ IsPosted(t_out) /\ IsLarge(t_out) /\ InHorizon(t_out)

C4_LagBounds ==
    /\ \A t_in, t_out \in TxIds :
        IsInOutPair(t_in, t_out) =>
            LET in_time == Tx(t_in).created_at
                out_time == Tx(t_out).created_at
                counted == <<t_out, t_in>> \in metric_a_join(transactions)
            IN  /\ (out_time = in_time \/ out_time = in_time + 120) => counted
                /\ (out_time = in_time - 1 \/ out_time = in_time + 121) => ~counted
    /\ ServerAnswered =>
        \A r \in Records :
            r.metric_a =
                Cardinality({t_out \in TxIds :
                    /\ Tx(t_out).sender_account_id = r.victim_account_id
                    /\ \E t_in \in TxIds :
                        /\ IsInOutPair(t_in, t_out)
                        /\ <<t_out, t_in>> \in metric_a_join(transactions)})

\* a returned transaction made exactly 2 minutes after the only inbound
\* transaction of its sender, counted in metric_a
C4_Witness ==
    /\ ServerAnswered
    /\ \E r \in Records :
        /\ r.metric_a = 1
        /\ \A t_in \in TxIds :
            IsInOutPair(t_in, r.transaction_id) =>
                r.transaction_time = Tx(t_in).created_at + 120
        /\ \E t_in \in TxIds : IsInOutPair(t_in, r.transaction_id)

----------------------------------------------------------------------------
(* C5 as stated: metric_b of an account is the number of distinct large    *)
(* posted outbound transactions of the account that follow a login of the  *)
(* account by at most 5 minutes (login_at <= created_at <= login_at + 5    *)
(* minutes).                                                               *)
C5_MetricB_AnyAge ==
    ServerAnswered =>
        \A r \in Records : r.metric_b = Cardinality(LoginOuts(r.victim_account_id))

(* C5 as amended: ... the number of distinct large posted outbound         *)
(* transactions of the account inside the 30-day lookback horizon that     *)
(* follow a login of the account by at most 5 minutes; a transaction with  *)
(* several such logins is counted once, and every transaction that follows *)
(* one login is counted.                                                   *)
C5_MetricB ==
    /\ \A acct \in AccountIds :
        COALESCE(metric_b_data(transactions, logins), acct) =
            Cardinality(LoginOutsInHorizon(acct))
    /\ ServerAnswered =>
        \A r \in Records :
            r.metric_b = Cardinality(LoginOutsInHorizon(r.victim_account_id))

\* a returned record with metric_b = 1 whose transaction follows two logins
C5_Witness ==
    /\ ServerAnswered
    /\ \E r \in Records :
        /\ r.metric_b = 1
        /\ Cardinality({l \in DOMAIN logins :
                IsLoginThenTransfer(l, r.transaction_id, r.victim_account_id)}) = 2

----------------------------------------------------------------------------
(* C6: metric_c of an account is the sum of the amounts of all posted      *)
(* transactions the account received inside the 30-day lookback horizon,   *)
(* whatever their amount, and 0 when it received none.                     *)
C6_MetricC ==
    /\ \A acct \in AccountIds :
        COALESCE(metric_c_data(transactions), acct) = InboundSum(acct)
    /\ ServerAnswered =>
        \A r \in Records :
            /\ r.metric_c = InboundSum(r.suspicious_account_id)
            /\ Inbound(r.suspicious_account_id) = {} => r.metric_c = 0

\* a returned record whose metric_c adds an amount below 50000 to its own
C6_Witness ==
    /\ ServerAnswered
    /\ \E r \in Records :
        /\ r.metric_c = 99999
        /\ \E t \in Inbound(r.suspicious_account_id) : ~IsLarge(t)

----------------------------------------------------------------------------
(* C7: a transaction that is not posted contributes to none of the three   *)
(* metrics and is never returned; the answer is the answer over the posted *)
(* transactions alone, so changing or removing a transaction that is not   *)
(* posted leaves it unchanged.                                             *)
PostedOnly ==
    [id \in {t \in TxIds : IsPosted(t)} |-> transactions[id]]

C7_PostedOnly ==
    /\ \A acct \in AccountIds :
        /\ COALESCE(metric_a_data(transactions), acct) =
                COALESCE(metric_a_data(PostedOnly), acct)
        /\ COALESCE(metric_b_data(transactions, logins), acct) =
                COALESCE(metric_b_data(PostedOnly, logins), acct)
        /\ COALESCE(metric_c_data(transactions), acct) =
                COALESCE(metric_c_data(PostedOnly), acct)
    /\ ServerAnswered =>
        /\ \A r \in Records : IsPosted(r.transaction_id)
        /\ Records = ServerSelect(PostedOnly, logins, accounts,
                                  getTimeRangeHours(response.time_range),
                                  response.min_metric_a, response.min_metric_b,
                                  response.max_metric_c)

\* a returned record with metric_c = 0 although its receiver was sent a
\* large transaction inside the horizon that is not posted
C7_Witness ==
    /\ ServerAnswered
    /\ \E r \in Records :
        /\ r.metric_c = 0
        /\ \E t \in TxIds :
            /\ ~IsPosted(t) /\ IsLarge(t) /\ InHorizon(t)
            /\ Tx(t).receiver_account_id = r.suspicious_account_id

----------------------------------------------------------------------------
(* C8: the candidate set of a query with window [start, end) is exactly    *)
(* the posted transactions with amount >= 50000 and                        *)
(* start <= created_at < end: a transaction with created_at = start is a   *)
(* candidate and one with created_at = end is not.  Every returned         *)
(* transaction is a candidate; the server returns every candidate when the *)
(* thresholds exclude nothing, the command-line query every candidate with *)
(* metric_a > 0, metric_b > 0 and metric_c = 0.                            *)
InWindow(t, start, end) ==
    /\ IsPosted(t) /\ IsLarge(t)
    /\ start <= Tx(t).created_at /\ Tx(t).created_at < end

CliReturnedIds == {r.tx_id : r \in Records}

NothingExcluded ==
    /\ response.min_metric_a = 0
    /\ response.min_metric_b = 0
    /\ \A acct \in AccountIds : ~Exceeds(InboundSum(acct), response.max_metric_c)

C8_Candidates ==
    /\ \A token \in TimeRanges :
        /\ \A t \in TxIds :
            ServerCandidate(transactions, t, getTimeRangeHours(token))
                <=> InWindow(t, Now - 3600 * getTimeRangeHours(token), Now)
        /\ candidate_outs(transactions, Now - range_to_duration(token), Now)
                = {t \in TxIds : InWindow(t, Now - range_to_duration(token), Now)}
    /\ ServerAnswered =>
        /\ ReturnedIds \subseteq WindowCandidates
        /\ \A t \in ReturnedIds :
            /\ Tx(t).created_at >= WindowStart
            /\ Tx(t).created_at # WindowEnd
        /\ NothingExcluded => ReturnedIds = WindowCandidates
    /\ response.op = "cli" =>
        /\ CliReturnedIds \subseteq WindowCandidates
        /\ CliReturnedIds =
            {t \in WindowCandidates :
                /\ Cardinality(ChainOuts(Tx(t).sender_account_id)) > 0
                /\ Cardinality(LoginOutsInHorizon(Tx(t).sender_account_id)) > 0
                /\ InboundSum(Tx(t).receiver_account_id) = 0}

\* an answer that returns a transaction made at the start of the window and
\* leaves out a posted large transaction made at its end
C8_Witness ==
    /\ ServerAnswered
    /\ NothingExcluded
    /\ \E r \in Records : r.transaction_time = WindowStart
    /\ \E t \in TxIds :
        /\ IsPosted(t) /\ IsLarge(t)
        /\ Tx(t).created_at = WindowEnd
        /\ t \notin ReturnedIds

----------------------------------------------------------------------------
(* C9: in every implementation of the query (queryRiskTransactions,        *)
(* build_sql and the GetRiskTransactions stored procedure) the metric_a    *)
(* and metric_c values of an account are those of the fixed 30-day         *)
(* lookback horizon, the same for every requested time range over the same *)
(* data.                                                                   *)
ProcStart(hours) == DATE_SUB_HOUR(Now, hours)

C9_WindowIndependent ==
    /\ \A acct \in AccountIds :
        \A h1, h2 \in ProcHours :
            /\ COALESCE(ProcMetricA(transactions, ProcStart(h1), Now), acct) =
                    COALESCE(ProcMetricA(transactions, ProcStart(h2), Now), acct)
            /\ COALESCE(ProcMetricC(transactions, ProcStart(h1), Now), acct) =
                    COALESCE(ProcMetricC(transactions, ProcStart(h2), Now), acct)
    /\ response.op # "none" /\ (response.op = "risk-analysis" => response.scan_ok) =>
        \A r \in Records :
            /\ r.metric_a = Cardinality(ChainOuts(r.victim_account_id))
            /\ r.metric_c = InboundSum(r.suspicious_account_id)

\* the same statement of queryRiskTransactions and build_sql alone
C9_ServerAndCli ==
    (ServerAnswered \/ response.op = "cli") =>
        \A r \in Records :
            /\ r.metric_a = Cardinality(ChainOuts(r.victim_account_id))
            /\ r.metric_c = InboundSum(r.suspicious_account_id)

----------------------------------------------------------------------------
(* C10: every record queryRiskTransactions returns carries metric_a and    *)
(* metric_b of the sender account of its transaction and metric_c of the   *)
(* receiver account; an account without an entry in a metric mapping has   *)
(* the value 0 for that metric, and the record is still returned and       *)
(* classified.                                                             *)
C10_SenderReceiver ==
    ServerAnswered =>
        /\ \A r \in Records :
            LET sender == Tx(r.transaction_id).sender_account_id
                receiver == Tx(r.transaction_id).receiver_account_id
            IN  /\ r.victim_account_id = sender
                /\ r.suspicious_account_id = receiver
                /\ r.metric_a = Cardinality(ChainOuts(sender))
                /\ r.metric_b = Cardinality(LoginOutsInHorizon(sender))
                /\ r.metric_c = InboundSum(receiver)
                /\ sender \notin DOMAIN metric_a_data(transactions) => r.metric_a = 0
                /\ sender \notin DOMAIN metric_b_data(transactions, logins)
                        => r.metric_b = 0
                /\ receiver \notin DOMAIN metric_c_data(transactions) => r.metric_c = 0
                /\ r.risk_level \in {"HIGH", "MEDIUM", "LOW"}
        /\ (response.min_metric_a = 0 /\ response.min_metric_b = 0) =>
            \A t \in WindowCandidates :
                (/\ Tx(t).sender_account_id \notin DOMAIN metric_a_data(transactions)
                 /\ Tx(t).sender_account_id
                        \notin DOMAIN metric_b_data(transactions, logins)
                 /\ Tx(t).receiver_account_id \notin DOMAIN metric_c_data(transactions))
                    => t \in ReturnedIds

\* a returned record whose sender has metric_a > 0 and whose receiver, a
\* different account, has no entry in the metric_a mapping
C10_SenderNotReceiver ==
    /\ ServerAnswered
    /\ \E r \in Records :
        /\ r.victim_account_id # r.suspicious_account_id
        /\ r.metric_a > 0
        /\ r.suspicious_account_id \notin DOMAIN metric_a_data(transactions)
        /\ r.victim_account_id \notin DOMAIN metric_b_data(transactions, logins)
        /\ r.metric_b = 0

\* a returned record none of whose accounts has an entry in a metric mapping
C10_Witness ==
    /\ ServerAnswered
    /\ \E r \in Records :
        /\ r.victim_account_id \notin DOMAIN metric_a_data(transactions)
        /\ r.victim_account_id \notin DOMAIN metric_b_data(transactions, logins)
        /\ r.suspicious_account_id \notin DOMAIN metric_c_data(transactions)
        /\ r.risk_level = "LOW"

----------------------------------------------------------------------------
(* C11: the time-range token to hours mapping is 24h -> 24, 3d -> 72,      *)
(* 7d -> 168, 30d -> 720, 6m -> 4320, 1y -> 8760 in getTimeRangeHours of   *)
(* the server, in range_to_duration of the command-line query (in hours)   *)
(* and in the SQL function GetTimeRangeHours; the window each query uses   *)
(* for a token is that many hours long.                                    *)
SixTokens == {"24h", "3d", "7d", "30d", "6m", "1y"}

TokenHours ==
    [token \in SixTokens |->
        CASE token = "24h" -> 24
          [] token = "3d" -> 72
          [] token = "7d" -> 168
          [] token = "30d" -> 720
          [] token = "6m" -> 4320
          [] OTHER -> 8760]

C11_TokenHours ==
    /\ \A token \in SixTokens :
        /\ getTimeRangeHours(token) = TokenHours[token]
        /\ range_to_duration(token) = 3600 * TokenHours[token]
        /\ GetTimeRangeHours(token) = TokenHours[token]
    /\ (ServerAnswered /\ response.time_range \in SixTokens /\ NothingExcluded) =>
        ReturnedIds =
            {t \in TxIds :
                InWindow(t, Now - 3600 * TokenHours[response.time_range], Now)}
    /\ (response.op = "cli" /\ response.range_token \in SixTokens) =>
        response.end - response.start = 3600 * TokenHours[response.range_token]
    /\ (response.op = "GetTimeRangeHours" /\ response.time_range \in SixTokens) =>
        response.hours = TokenHours[response.time_range]

\* a 6m answer that returns a transaction made 4320 hours ago and leaves out
\* one made 8760 hours ago
C11_Witness ==
    /\ ServerAnswered
    /\ response.time_range = "6m"
    /\ \E r \in Records : r.transaction_time = Now - 4320 * 3600
    /\ \E t \in TxIds :
        /\ IsPosted(t) /\ IsLarge(t)
        /\ Tx(t).created_at = Now - 8760 * 3600
        /\ t \notin ReturnedIds

----------------------------------------------------------------------------
(* C12: the list queryRiskTransactions returns is ordered by created_at    *)
(* descending and, among records with equal created_at, by amount          *)
(* descending: of two consecutive records r1, r2, r1.created_at >          *)
(* r2.created_at, or they are equal and r1.amount >= r2.amount.            *)
TimeThenAmountDescending(rows) ==
    \A k \in 1..(Len(rows) - 1) :
        \/ rows[k].transaction_time > rows[k + 1].transaction_time
        \/ /\ rows[k].transaction_time = rows[k + 1].transaction_time
           /\ rows[k].amount >= rows[k + 1].amount

C12_ServerOrder ==
    ServerAnswered => TimeThenAmountDescending(response.transactions)

\* an answer whose first two records were made at the same time, the larger
\* amount first although it was inserted later
C12_Witness ==
    /\ ServerAnswered
    /\ Len(response.transactions) >= 2
    /\ response.transactions[1].transaction_time
            = response.transactions[2].transaction_time
    /\ response.transactions[1].amount > response.transactions[2].amount
    /\ response.transactions[1].transaction_id > response.transactions[2].transaction_id

----------------------------------------------------------------------------
(* C13: the rows the command-line query returns (all three dialects) are   *)
(* ordered by created_at descending then amount descending: two returned   *)
(* rows with equal created_at appear with the larger amount first.         *)
C13_CliOrder ==
    response.op = "cli" =>
        \A k \in 1..(Len(response.transactions) - 1) :
            \/ response.transactions[k].tx_time > response.transactions[k + 1].tx_time
            \/ /\ response.transactions[k].tx_time = response.transactions[k + 1].tx_time
               /\ response.transactions[k].amount >= response.transactions[k + 1].amount

\* what the statement does guarantee: created_at descending
C13_CliOrderTimeOnly ==
    response.op = "cli" =>
        \A k \in 1..(Len(response.transactions) - 1) :
            response.transactions[k].tx_time >= response.transactions[k + 1].tx_time

----------------------------------------------------------------------------
(* C14: no transaction id appears twice in the list one call of            *)
(* queryRiskTransactions returns, whatever the tables hold (accounts with  *)
(* several chained transactions and several logins included), and the      *)
(* frontend renders each transaction id at most once.                      *)
NoDuplicateIds(rows) ==
    \A i, j \in 1..Len(rows) : i # j => rows[i].transaction_id # rows[j].transaction_id

C14_NoDuplicateIds ==
    ServerAnswered =>
        /\ NoDuplicateIds(response.transactions)
        /\ NoDuplicateIds(displayTransactions(response.transactions))
        /\ displayTransactions(response.transactions) = response.transactions
        /\ displayTransactions(response.transactions \o response.transactions)
                = response.transactions

\* an answer of two records whose sender has two pairs in the join of
\* metric A and two in the join of metric B
C14_Witness ==
    /\ ServerAnswered
    /\ Len(response.transactions) = 2
    /\ \E r \in Records :
        /\ Cardinality({q \in metric_a_join(transactions) :
                Tx(q[1]).sender_account_id = r.victim_account_id}) >= 2
        /\ Cardinality({q \in metric_b_join(transactions, logins) :
                Tx(q[1]).sender_account_id = r.victim_account_id}) >= 2

----------------------------------------------------------------------------
(* C15: whenever a cap truncates a result (the row limit of                *)
(* queryRiskTransactions, the working-set cap of                           *)
(* GetRiskTransactionsBillionScale) the response carries an indication     *)
(* that tells a truncated result from a complete one.                      *)
ResultTruncated ==
    /\ ServerAnswered
    /\ NothingExcluded
    /\ Cardinality(WindowCandidates) > Len(response.transactions)

TruncationIndicated ==
    \/ "truncated" \in DOMAIN response
    \/ response.total_count > Len(response.transactions)

C15_TruncationReported == ResultTruncated => TruncationIndicated

----------------------------------------------------------------------------
(* C16: when the scan of the data source fails (mysql_query or             *)
(* mysql_store_result reports failure) the POST /api/risk-analysis request *)
(* surfaces an error: the response is never a status "success" response    *)
(* with an empty transaction list.                                         *)
C16_ScanFailureSurfaced ==
    (response.op = "risk-analysis" /\ ~response.scan_ok) =>
        ~(response.status = "success" /\ response.transactions = <<>>)

----------------------------------------------------------------------------
(* C18: a command-line query whose window is empty (start = end, as when   *)
(* range_to_duration returns 0 seconds) has no candidates, returns no rows *)
(* and completes without an error, whatever the tables hold.               *)
C18_EmptyWindow ==
    /\ range_to_duration("2w") = 0
    /\ (response.op = "cli" /\ response.start = response.end) =>
        /\ candidate_outs(transactions, response.start, response.end) = {}
        /\ response.transactions = <<>>
        /\ response.exit_code = 0

\* an empty-window answer over a table with a posted large transaction made
\* at the instant of the window
C18_Witness ==
    /\ response.op = "cli"
    /\ response.start = response.end
    /\ response.range_token = "2w"
    /\ \E t \in TxIds :
        IsPosted(t) /\ IsLarge(t) /\ Tx(t).created_at = response.start

----------------------------------------------------------------------------
(* C19: a request whose time range is none of 24h, 3d, 7d, 30d, 6m, 1y, or *)
(* whose min_metric_a, min_metric_b or max_metric_c is negative, is        *)
(* rejected before the query is run; it never produces a result for some   *)
(* other window.                                                           *)
C19_RequestValidated ==
    (response.op = "risk-analysis" /\ response.status = "success") =>
        /\ response.time_range \in SixTokens
        /\ response.min_metric_a >= 0
        /\ response.min_metric_b >= 0
        /\ response.max_metric_c.units >= 0

\* the result a request with the token 2w does produce: the transactions of
\* the last 24 hours
C19_OtherWindow ==
    /\ ServerAnswered
    /\ response.time_range = "2w"
    /\ \E r \in Records : r.transaction_time = Now - 24 * 3600

----------------------------------------------------------------------------
\* the transactions GetRiskTransactionsBillionScale selects for a window of
\* the given hours: posted, of 50000 or more, made in the window and in the
\* last 30 days, between two accounts
BillionScaleMatching(hours) ==
    {t \in TxIds :
        /\ IsPosted(t)
        /\ IsLarge(t)
        /\ Tx(t).created_at >= DATE_SUB_HOUR(Now, hours)
        /\ Tx(t).created_at >= HorizonStart
        /\ Tx(t).created_at < Now
        /\ Tx(t).sender_account_id \in accounts
        /\ Tx(t).receiver_account_id \in accounts}

\* the listings of a set of transactions, each once, latest first and among
\* equal times largest first
OrderedListings(ids) ==
    {s \in [1..Cardinality(ids) -> ids] :
        /\ \A j, k \in DOMAIN s : j # k => s[j] # s[k]
        /\ \A k \in 1..(Cardinality(ids) - 1) :
            \/ Tx(s[k]).created_at > Tx(s[k + 1]).created_at
            \/ /\ Tx(s[k]).created_at = Tx(s[k + 1]).created_at
               /\ Tx(s[k]).amount >= Tx(s[k + 1]).amount}

(* C20: GetRiskTransactionsBillionScale called with non-negative           *)
(* page_offset and page_size returns the slice [offset, offset + size) of  *)
(* the matching rows listed by created_at descending, then amount          *)
(* descending; with page_offset at or beyond the number of matching rows   *)
(* the result set is empty, and the call completes.                        *)
C20_PageIsSlice ==
    response.op = "GetRiskTransactionsBillionScale" =>
        LET n == Cardinality(BillionScaleMatching(response.time_range_hours))
            first == response.page_offset + 1
            last == IF response.page_offset + response.page_size <= n
                    THEN response.page_offset + response.page_size ELSE n
            page == response.transactions
        IN  /\ response.page_offset >= n => page = <<>>
            /\ Len(page) = (IF last >= first THEN last - first + 1 ELSE 0)
            /\ \E s \in OrderedListings(BillionScaleMatching(response.time_range_hours)) :
                \A k \in 1..Len(page) :
                    /\ page[k].transaction_id = s[response.page_offset + k]
                    /\ page[k].transaction_time = Tx(s[response.page_offset + k]).created_at
                    /\ page[k].amount = Tx(s[response.page_offset + k]).amount

\* a call whose offset is the number of matching rows, of which there are some
C20_Witness ==
    /\ response.op = "GetRiskTransactionsBillionScale"
    /\ response.page_size > 0
    /\ BillionScaleMatching(response.time_range_hours) # {}
    /\ response.page_offset = Cardinality(BillionScaleMatching(response.time_range_hours))
    /\ response.transactions = <<>>

\* a page of one row taken from the middle of three matching rows
C20_InnerPage ==
    /\ response.op = "GetRiskTransactionsBillionScale"
    /\ response.page_offset = 1
    /\ response.page_size = 1
    /\ Cardinality(BillionScaleMatching(response.time_range_hours)) = 3
    /\ Len(response.transactions) = 1

----------------------------------------------------------------------------
\* a transaction whose sender or receiver has no accounts row
IsOrphan(t) ==
    Tx(t).sender_account_id \notin accounts \/ Tx(t).receiver_account_id \notin accounts

(* C17: a candidate transaction whose sender or receiver account has no    *)
(* row in accounts is still returned: by queryRiskTransactions when it     *)
(* passes the request's window and thresholds, and by                      *)
(* GetRiskTransactionsBillionScale when it is in the window and the page   *)
(* holds the whole result.                                                 *)
C17_OrphanReturned ==
    /\ ServerAnswered =>
        \A t \in TxIds :
            (/\ IsOrphan(t)
             /\ Cardinality(TxIds) <= RowLimit
             /\ ServerCandidate(transactions, t, getTimeRangeHours(response.time_range))
             /\ ServerThresholds(transactions, logins, t, response.min_metric_a,
                                 response.min_metric_b, response.max_metric_c))
                => \E r \in Records : r.transaction_id = t
    /\ response.op = "GetRiskTransactionsBillionScale" =>
        \A t \in TxIds :
            (/\ IsOrphan(t)
             /\ response.page_offset = 0
             /\ Cardinality(TxIds) <= response.page_size
             /\ IsPosted(t)
             /\ IsLarge(t)
             /\ Tx(t).created_at >= DATE_SUB_HOUR(Now, response.time_range_hours)
             /\ Tx(t).created_at >= HorizonStart
             /\ Tx(t).created_at < Now)
                => \E r \in Records : r.transaction_id = t

\* what the inner joins do: no returned record is of a transaction without
\* both accounts rows
C17_OrphanDropped ==
    (ServerAnswered \/ response.op = "GetRiskTransactionsBillionScale") =>
        \A r \in Records : ~IsOrphan(r.transaction_id)

----------------------------------------------------------------------------
\* the posted outbound transactions of acct with amount >= 50000 inside the
\* lookback horizon
LargeOutbound(acct) ==
    {t \in TxIds : /\ Tx(t).sender_account_id = acct
                   /\ IsPosted(t) /\ IsLarge(t) /\ InHorizon(t)}

(* C21: for every account and every data set, metric_a computed by         *)
(* queryRiskTransactions is at most the number of the account's posted     *)
(* outbound transactions with amount >= 50000 inside the lookback horizon, *)
(* also when one outbound transaction follows several inbound ones.        *)
C21_MetricABound ==
    /\ \A acct \in AccountIds :
        COALESCE(metric_a_data(transactions), acct) <= Cardinality(LargeOutbound(acct))
    /\ ServerAnswered =>
        \A r \in Records :
            r.metric_a <= Cardinality(LargeOutbound(r.victim_account_id))

\* an account whose only large outbound transaction follows two inbound
\* ones and is returned with metric_a = 1
C21_Witness ==
    /\ ServerAnswered
    /\ \E r \in Records :
        /\ Cardinality(LargeOutbound(r.victim_account_id)) = 1
        /\ r.metric_a = 1
        /\ Cardinality({t_in \in TxIds :
                IsChain(t_in, r.transaction_id, r.victim_account_id)}) >= 2

----------------------------------------------------------------------------
\* lookback horizons in days, around the 30 days of the statement, and the
\* windows in hours of the stored procedure
HorizonDays == {0, 29, 30, 31}
HorizonHours == {24, 720, 8760}

(* C22: metric C is monotone in the lookback horizon.  Over a data set     *)
(* with non-negative amounts, for horizons H1 <= H2 that end at the same   *)
(* instant, metric_c(account, H1) <= metric_c(account, H2) for every       *)
(* account: for the sum of metric_c_data, whose horizon is 30 days, and    *)
(* for the sum of the stored procedure, whose horizon is the window.       *)
(* The sums read the transactions table alone, so they are compared in the *)
(* states between two requests, where every content of the table occurs.   *)
C22_MetricCMonotone ==
    (response = NoResponse /\ \A t \in TxIds : Tx(t).amount >= 0) =>
        \A acct \in AccountIds :
            /\ metric_c_sum_within(transactions, acct, 30)
                    = COALESCE(metric_c_data(transactions), acct)
            /\ \A H1, H2 \in HorizonDays :
                H1 <= H2 => metric_c_sum_within(transactions, acct, H1)
                                <= metric_c_sum_within(transactions, acct, H2)
            /\ \A H1, H2 \in HorizonHours :
                H1 <= H2 =>
                    COALESCE(ProcMetricC(transactions, DATE_SUB_HOUR(Now, H1), Now), acct)
                        <= COALESCE(ProcMetricC(transactions, DATE_SUB_HOUR(Now, H2), Now), acct)

\* an account whose sum grows from the 29-day to the 30-day horizon and again
\* to the 31-day horizon
C22_Witness ==
    \E acct \in AccountIds :
        /\ metric_c_sum_within(transactions, acct, 29) < metric_c_sum_within(transactions, acct, 30)
        /\ metric_c_sum_within(transactions, acct, 30) < metric_c_sum_within(transactions, acct, 31)

----------------------------------------------------------------------------
\* the tables hold the scenario and nothing else: t_in pays 60000 to X at T0,
\* X logs in at T0 + 30 s, t_out pays 55000 from X to Y at T0 + 90 s
IsScenario(X, Y, t_in, t_out) ==
    /\ X # Y
    /\ TxIds = {t_in, t_out}
    /\ t_in # t_out
    /\ Tx(t_in).sender_account_id # X
    /\ Tx(t_in).receiver_account_id = X
    /\ Tx(t_in).amount = 60000
    /\ Tx(t_in).status = "posted"
    /\ Tx(t_in).created_at = ScenarioT0
    /\ Tx(t_out) = [sender_account_id |-> X, receiver_account_id |-> Y,
                    amount |-> 55000, status |-> "posted",
                    created_at |-> ScenarioT0 + 90]
    /\ Cardinality(DOMAIN logins) = 1
    /\ \A l \in DOMAIN logins :
        logins[l] = [account_id |-> X, login_at |-> ScenarioT0 + 30]

(* C23: when X receives 60000 at T0, logs in at T0 + 30 s and sends 55000  *)
(* to Y at T0 + 90 s, with no other events, metric_a(X) = 1,               *)
(* metric_b(X) = 1 and metric_c(Y) = 55000, the inbound sum of Y.  The     *)
(* outbound transaction is classified and filtered on (1, 1, 55000): under *)
(* min_a = 1, min_b = 1, max_c = 0 it is left out, as 55000 > 0; under     *)
(* max_c = 100000 it is returned with these metrics and the tier MEDIUM,   *)
(* as metric_c is not 0.                                                   *)
C23_Scenario ==
    \A X, Y \in accounts : \A t_in, t_out \in TxIds :
        IsScenario(X, Y, t_in, t_out) =>
            /\ COALESCE(metric_a_data(transactions), X) = 1
            /\ COALESCE(metric_b_data(transactions, logins), X) = 1
            /\ COALESCE(metric_c_data(transactions), Y) = 55000
            /\ InboundSum(Y) = 55000
            /\ (ServerAnswered /\ response.max_metric_c = Double(0, 0)) =>
                t_out \notin ReturnedIds
            /\ (ServerAnswered /\ response.max_metric_c = Double(100000, 0)) =>
                \E r \in Records :
                    /\ r.transaction_id = t_out
                    /\ r.metric_a = 1
                    /\ r.metric_b = 1
                    /\ r.metric_c = 55000
                    /\ r.risk_level = "MEDIUM"

\* the scenario answered under min_a = 1, min_b = 1, max_c = 0
C23_Witness ==
    /\ ServerAnswered
    /\ response.min_metric_a = 1
    /\ response.min_metric_b = 1
    /\ response.max_metric_c = Double(0, 0)
    /\ \E X, Y \in accounts : \E t_in, t_out \in TxIds : IsScenario(X, Y, t_in, t_out)

\* the scenario answered under max_c = 100000: the one record of the answer
C23_Returned ==
    /\ ServerAnswered
    /\ response.max_metric_c = Double(100000, 0)
    /\ Len(response.transactions) = 1
    /\ \E X, Y \in accounts : \E t_in, t_out \in TxIds : IsScenario(X, Y, t_in, t_out)

----------------------------------------------------------------------------
\* worker w has a statement's result waiting on the connection
HoldsConnection(w) == workers[w].pc = "mysql_store_result"

(* C24: concurrent requests are isolated.  Between the mysql_query of one  *)
(* request and its reading of the result no other request calls the        *)
(* connection: no statement finds the connection holding another           *)
(* request's unread result, and no request fails because of another.       *)
C24_Isolated ==
    \A w \in Workers :
        /\ ~workers[w].out_of_sync
        /\ HoldsConnection(w) => conn.owner = w
        /\ workers[w].pc = "respond" => workers[w].http_status = 200

\* what does hold: the result a request reads is that of its own statement
C24_OwnResult ==
    \A w \in Workers : HoldsConnection(w) => conn = [status |-> "GET_RESULT", owner |-> w]

\* two requests in progress at the same time, one of them between its
\* mysql_query and its mysql_store_result
C24_Concurrent ==
    \E w1, w2 \in Workers :
        /\ w1 # w2
        /\ HoldsConnection(w1)
        /\ workers[w2].pc = "mysql_query"

----------------------------------------------------------------------------
(* C25: every record GetRiskTransactionsBillionScale returns carries the   *)
(* metric_a and metric_b computed from the data for its sender, the        *)
(* metric_c computed for its receiver, and the risk tier the classifier    *)
(* rule derives from these three.                                          *)
C25_ComputedMetrics ==
    response.op = "GetRiskTransactionsBillionScale" =>
        \A r \in Records :
            /\ r.metric_a = Cardinality(ChainOuts(r.victim_account_id))
            /\ r.metric_b = Cardinality(LoginOutsInHorizon(r.victim_account_id))
            /\ r.metric_c = InboundSum(r.suspicious_account_id)
            /\ r.risk_level = risk_level(Cardinality(ChainOuts(r.victim_account_id)),
                                         Cardinality(LoginOutsInHorizon(r.victim_account_id)),
                                         InboundSum(r.suspicious_account_id))

\* what the procedure returns: the literals 1, 1, 0 and HIGH in every record
C25_Literals ==
    response.op = "GetRiskTransactionsBillionScale" =>
        \A r \in Records :
            r.metric_a = 1 /\ r.metric_b = 1 /\ r.metric_c = 0 /\ r.risk_level = "HIGH"

----------------------------------------------------------------------------
\* the reporting window of the answer is no longer than the lookback horizon
WindowWithinHorizon == getTimeRangeHours(response.time_range) <= 30 * 24

(* C26: in an answer of queryRiskTransactions whose reporting window is no *)
(* longer than the 30-day lookback horizon, every record has metric_c >=   *)
(* its own amount >= 50000, the candidate being a posted inbound           *)
(* transaction of its receiver inside the horizon; so no record has        *)
(* risk_level HIGH, and a query with max_metric_c < 50000 returns the      *)
(* empty list.                                                             *)
C26_ReceiverSum ==
    (ServerAnswered /\ WindowWithinHorizon) =>
        /\ \A r \in Records :
            /\ r.metric_c >= r.amount
            /\ r.amount >= 50000
            /\ r.risk_level # "HIGH"
        /\ response.max_metric_c.units < 50000 => response.transactions = <<>>

\* the part that holds: the bound on metric_c and the absence of HIGH, and
\* the empty list for a max_metric_c below 50000 with at most six decimals
C26_ReceiverSumSixDecimals ==
    (ServerAnswered /\ WindowWithinHorizon) =>
        /\ \A r \in Records :
            /\ r.metric_c >= r.amount
            /\ r.amount >= 50000
            /\ r.risk_level # "HIGH"
        /\ (response.max_metric_c.units < 50000 /\ response.max_metric_c.e7 % 10 = 0)
                => response.transactions = <<>>

\* an answer within the horizon that holds a record
C26_Returned ==
    /\ ServerAnswered
    /\ WindowWithinHorizon
    /\ response.transactions # <<>>

----------------------------------------------------------------------------
\* a posted transaction of 50000 or more inside the horizon from an account
\* to itself
IsSelfTransfer(t) ==
    /\ Tx(t).sender_account_id = Tx(t).receiver_account_id
    /\ IsPosted(t) /\ IsLarge(t) /\ InHorizon(t)

(* C27: the metric A self-join does not require t_in and t_out to be       *)
(* different transactions.  A posted transaction with amount >= 50000      *)
(* inside the lookback horizon whose sender is its receiver is joined with *)
(* itself, in queryRiskTransactions and in build_sql, and counts toward    *)
(* metric_a of the account.                                                *)
C27_SelfTransfer ==
    \A t \in TxIds :
        IsSelfTransfer(t) =>
            /\ <<t, t>> \in metric_a_join(transactions)
            /\ <<t, t>> \in a_join(transactions)
            /\ COALESCE(metric_a_data(transactions), Tx(t).sender_account_id)
                    = Cardinality({u \in TxIds : IsSelfTransfer(u)
                                        /\ Tx(u).sender_account_id = Tx(t).sender_account_id}
                                  \cup {u \in ChainOuts(Tx(t).sender_account_id) :
                                            ~IsSelfTransfer(u)})
            /\ COALESCE(a_counts(transactions), Tx(t).sender_account_id) >= 1
            /\ ServerAnswered =>
                \A r \in Records : r.transaction_id = t => r.metric_a >= 1

\* an answer that returns the only transaction of the table, a self-transfer,
\* with metric_a = 1
C27_Witness ==
    /\ ServerAnswered
    /\ Cardinality(TxIds) = 1
    /\ \E r \in Records : IsSelfTransfer(r.transaction_id) /\ r.metric_a = 1

----------------------------------------------------------------------------
(* C28: every row GetRiskTransactionsBillionScale returns has created_at   *)
(* inside the reporting window [end - time_range_hours, end) and inside    *)
(* the last 30 days, the page being read from a working set filled from    *)
(* the 30-day horizon only; with time_range_hours > 720 a large posted     *)
(* transaction older than 30 days is not returned although it lies in the  *)
(* reporting window.                                                       *)
C28_WorkingSetHorizon ==
    response.op = "GetRiskTransactionsBillionScale" =>
        /\ \A r \in Records :
            /\ r.transaction_time >= DATE_SUB_HOUR(Now, response.time_range_hours)
            /\ r.transaction_time < Now
            /\ r.transaction_time >= DATE_SUB_DAY(Now, 30)
        /\ \A t \in TxIds :
            Tx(t).created_at < DATE_SUB_DAY(Now, 30) => t \notin ReturnedIds

\* a call over a year whose page holds every row of the result: a large
\* posted transaction one second older than 30 days is left out, one made 30
\* days ago is returned
C28_Witness ==
    /\ response.op = "GetRiskTransactionsBillionScale"
    /\ response.time_range_hours = 8760
    /\ response.page_offset = 0
    /\ response.page_size >= Cardinality(TxIds)
    /\ ReturnedIds # {}
    /\ \E t \in TxIds \ ReturnedIds :
        /\ IsPosted(t) /\ IsLarge(t)
        /\ Tx(t).created_at = DATE_SUB_DAY(Now, 30) - 1
        /\ Tx(t).created_at >= DATE_SUB_HOUR(Now, response.time_range_hours)

----------------------------------------------------------------------------
(* C29: in every response to a POST /api/risk-analysis that reaches the    *)
(* query, total_count is the number of elements of transactions and is at  *)
(* most the row limit of the statement, and time_range and the criteria    *)
(* are the values of the request's members, or 24h, 1, 1 and 0 for the     *)
(* members the request does not have.                                      *)
C29_ResponseMetadata ==
    response.op = "risk-analysis" =>
        /\ response.total_count = Len(response.transactions)
        /\ response.total_count <= ScaledRowLimit
        /\ \A v \in response.request.time_range : response.time_range = v
        /\ \A v \in response.request.min_metric_a : response.min_metric_a = v
        /\ \A v \in response.request.min_metric_b : response.min_metric_b = v
        /\ \A v \in response.request.max_metric_c : response.max_metric_c = v
        /\ response.request.time_range = {} => response.time_range = "24h"
        /\ response.request.min_metric_a = {} => response.min_metric_a = 1
        /\ response.request.min_metric_b = {} => response.min_metric_b = 1
        /\ response.request.max_metric_c = {} => response.max_metric_c = Double(0, 0)

\* a response cut at the row limit, to a request with every member
C29_Witness ==
    /\ ServerAnswered
    /\ \A k \in {"time_range", "min_metric_a", "min_metric_b", "max_metric_c"} :
        response.request[k] # {}
    /\ response.total_count = ScaledRowLimit
    /\ Cardinality(WindowCandidates) > ScaledRowLimit

\* a response to a request without members
C29_Defaults ==
    /\ ServerAnswered
    /\ \A k \in {"time_range", "min_metric_a", "min_metric_b", "max_metric_c"} :
        response.request[k] = {}
    /\ TxIds # {}

----------------------------------------------------------------------------
(* C30: in the thread-per-connection server, under any interleaving, the   *)
(* socket of every accepted connection is closed at most once and, once    *)
(* its thread has ended, exactly once; only by the thread that handled it  *)
(* and only after handleRequest has returned, also when recv yields no     *)
(* data and nothing is sent; at most one response is sent on a connection; *)
(* no thread closes or writes to the socket of another connection.         *)
C30_SocketClosedOnce ==
    \A n \in DOMAIN threads :
        /\ threads[n].closes = (IF threads[n].pc = "done" THEN 1 ELSE 0)
        /\ threads[n].sends <= 1
        /\ threads[n].sends = (IF threads[n].pc \in {"closesocket", "done"}
                                    /\ threads[n].bytes_received > 0 THEN 1 ELSE 0)
        /\ ~threads[n].foreign
        /\ threads[n].pc # "done" => sockets[threads[n].client_socket] = n

\* two connections on the same handle, both ended: on one recv yielded no data
\* and nothing was sent, on the other a response was sent
C30_Witness ==
    \E n1, n2 \in DOMAIN threads :
        /\ n1 # n2
        /\ threads[n1].client_socket = threads[n2].client_socket
        /\ threads[n1].pc = "done" /\ threads[n2].pc = "done"
        /\ threads[n1].bytes_received <= 0 /\ threads[n1].sends = 0
        /\ threads[n2].sends = 1

\* two threads between recv and closesocket at the same time
C30_Interleaved ==
    \E n1, n2 \in DOMAIN threads :
        n1 # n2 /\ threads[n1].pc = "send" /\ threads[n2].pc = "closesocket"

====
